---- MODULE Spec2Model ----
(***************************************************************************)
(* State-machine model of the background service worker of the MPV         *)
(* Playlist Organizer extension (src/background.js):                       *)
(*   - the native-host connection manager and request correlator           *)
(*     (connectToNativeHost, callNativeHost, the port listeners);          *)
(*   - the stream scanner (findM3u8InUrl, _waitForM3u8Detection, the       *)
(*     webRequest / tabs listeners);                                       *)
(*   - the exit-event handler (handleMpvExited, handleClear);              *)
(*   - the folder and playlist handlers of the runtime.onMessage listener  *)
(*     and the debounced sync to the native host (debounce).               *)
(* Specifications: Spec (connection manager), LiveSpec (the same with a    *)
(* channel that answers), DetectSpec (one scan and the observer),          *)
(* NavigationSpec (the cache across navigations), ObserverSpec (the match  *)
(* condition), ConcurrentSpec (scans in progress at once), ExitSpec (exit  *)
(* events and storage), FolderSpec and PlaylistSpec (storage handlers),    *)
(* DebounceSpec (the debounced sync).                                      *)
(* JavaScript is single threaded: a handler runs to its next await, and    *)
(* promise continuations (microtasks) run before the next platform event.  *)
(***************************************************************************)
EXTENDS Integers, Sequences, FiniteSets, TLC

\* ------------------------------------------------------------------ bounds
MaxCalls == 2        \* callNativeHost invocations
MaxConnects == 2     \* chrome.runtime.connectNative calls
MaxInbound == 3      \* inbound messages delivered by the host
MaxScans == 1        \* findM3u8InUrl invocations (DetectSpec)
MaxConcurrent == 2   \* findM3u8InUrl invocations (ConcurrentSpec)
MaxObserved == 2     \* signature matches seen by the webRequest observer
MaxRequests == 2     \* requests handled by the runtime.onMessage listener
MaxInvocations == 3  \* invocations of debouncedSyncToNativeHostFile
MaxTicks == 6        \* half seconds the clock runs for

Calls == 1..MaxCalls

\* ------------------------------------------------------------- data shapes
Null == 0                      \* JavaScript null / undefined handle
NoId == <<"none">>             \* an inbound message without request_id
ReqId(n) == <<"req_", n>>      \* `req_${n}`
RequestIds == {ReqId(n) : n \in 0..(MaxCalls - 1)}
\* requestPromises is a plain object ({}): a lookup under a property name of
\* Object.prototype finds the inherited property.
InheritedKeys == {<<"constructor">>}

Unsettled == [kind |-> "none", val |-> <<>>]
Resolved(v) == [kind |-> "resolved", val |-> v]
Rejected(msg) == [kind |-> "rejected", val |-> msg]
\* A promise settles once: later resolve/reject calls are ignored.
Settle(p, outcome) == IF p.kind = "none" THEN outcome ELSE p

\* Inbound messages the host can deliver: a correlated response, an
\* unsolicited mpv_exited event, or anything else.
Payloads ==
    {[action |-> "none", success |-> TRUE, text |-> "a"],
     [action |-> "none", success |-> FALSE, text |-> "b"],
     [action |-> "mpv_exited", success |-> TRUE, text |-> "a"]}
InboundMessages ==
    {[request_id |-> i, action |-> d.action, success |-> d.success, text |-> d.text] :
        i \in RequestIds \cup {NoId} \cup InheritedKeys, d \in Payloads}

\* Unsolicited exit events: with and without folderId, with the exit code of
\* on_completion.lua and with another one.
PlaylistFinished == 99
FolderIds == {"YT"}
ExitEvents ==
    {[action |-> "mpv_exited", folderId |-> "YT", returnCode |-> PlaylistFinished],
     [action |-> "mpv_exited", folderId |-> "YT", returnCode |-> 0],
     [action |-> "mpv_exited", folderId |-> "gone", returnCode |-> PlaylistFinished],
     [action |-> "mpv_exited", returnCode |-> PlaylistFinished]}
ExitMessages ==
    {[k \in (DOMAIN e) \cup {"request_id"} |-> IF k = "request_id" THEN NoId ELSE e[k]] :
        e \in ExitEvents}

\* const { request_id, ...responseData } = response;
ResponseData(m) == [k \in (DOMAIN m) \ {"request_id"} |-> m[k]]

DisconnectErrors == {"Native host disconnected.", "lastError"}
ConnectError == <<"connectNative threw">>
SendError == <<"Failed to send message to native host. It may have disconnected. Error: ", "postMessage threw">>
DisconnectedError(errorMessage) == <<"Native host disconnected: ", errorMessage>>

VARIABLES
    \* --- connection manager (background.js 201-206)
    connectionStatus,    \* "DISCONNECTED" | "CONNECTING" | "CONNECTED"
    nativePort,          \* Null or the index in ports of the current handle
    connectionPromise,   \* "none" | "resolved" | "rejected"
    requestPromises,     \* request id -> the call whose {resolve, reject} it holds
    requestIdCounter,
    \* --- the platform side of the channel
    ports,               \* ports[p]: "open" | "broken" | "closed" | "failed"
    posted,              \* messages handed to postMessage, in order
    lastInbound,         \* the message most recently given to onMessage
    inboundCount,
    mpvExitedCalls,      \* payloads handleMpvExited was invoked with
    \* --- one entry per callNativeHost invocation
    pc,                  \* "idle" | "awaitConn" | "pending" | "settled" | "done"
    awaited,             \* state of the promise the call awaits at line 296
    sentId,              \* the request id injected into the call's message
    outer,               \* the promise created at line 291
    result,              \* what the promise returned by callNativeHost fulfils with
    callLog,             \* type of the log broadcast at lines 319 / 325
    onMessageThrew       \* the onMessage listener raised an exception

connVars == <<connectionStatus, nativePort, connectionPromise, requestPromises,
              requestIdCounter, ports, posted, lastInbound, inboundCount,
              mpvExitedCalls, pc, awaited, sentId, outer, result, callLog,
              onMessageThrew>>

VARIABLES
    \* --- storage and the handleMpvExited invocations (one per entry of
    \* mpvExitedCalls)
    storedFolders,       \* storage: folder id -> playlist
    clear_on_completion, \* storage: settings.ui_preferences.global.clear_on_completion
    exitPc,              \* "storage" | "clearGet" | "clearSet" | "done" | "threw"
    clearData,           \* the folders object handleClear passes to storage.set
    handleClearCalls     \* how often the invocation called handleClear

exitVars == <<storedFolders, clear_on_completion, exitPc, clearData, handleClearCalls>>

VARIABLES
    \* --- stream scanner registries (background.js 929-932)
    lastDetectedUrls,        \* tab id -> last manifest URL seen in that tab
    m3u8DetectionPromises,   \* tab id -> the scan whose {resolve, reject} it holds
    \* --- the browser
    tabState,                \* tabState[t]: "none" | "open" | "closing" | "closed"
    notified,                \* chrome.tabs.sendMessage(tabId, {m3u8: url}) calls:
                             \* their number and the last <<tabId, url>>
    observedCount,           \* signature matches the webRequest listener has seen
    listenerThrew,           \* an event listener raised an exception
    \* --- one entry per findM3u8InUrl invocation
    scanPc,                  \* position of the invocation
    configured,              \* settings.ui_preferences.global.stream_scanner_timeout
    timeoutInSeconds,
    scannerTab,              \* Null or the id of the tab of the scanner window
    originalTab,             \* Null or the id of the tab to refocus
    timer,                   \* "none" | "armed" | "cleared" | "fired"
    detect,                  \* the promise of _waitForM3u8Detection
    settleCalls,             \* how often resolve / reject of that promise ran
    removeRequested,         \* chrome.windows.remove was called
    focusCalls,              \* chrome.windows.update / chrome.tabs.update calls
    scanResult               \* the promise returned by findM3u8InUrl

detVars == <<lastDetectedUrls, m3u8DetectionPromises, tabState, notified, observedCount,
             listenerThrew, scanPc, configured, timeoutInSeconds, scannerTab,
             originalTab, timer, detect, settleCalls, removeRequested,
             focusCalls, scanResult>>

VARIABLES
    \* --- the webRequest observer, as seen by the caller of the listener
    response,                \* the details object the listener was last called with
    matched                  \* whether the listener took it for a manifest (line 1092)

obsVars == <<response, matched>>

VARIABLES
    \* --- storage (data.folderOrder; data.folders is storedFolders) and one
    \* entry per request handled by the runtime.onMessage listener
    folderOrder,             \* storage: the display order of the folder ids
    requests,                \* the request objects, in order of arrival
    handlerPc,               \* "native" | "get" | "set" | "done"
    handlerData,             \* the local `data` of the handler
    handlerResponse          \* what the handler returned (or the error thrown)

handlerVars == <<folderOrder, requests, handlerPc, handlerData, handlerResponse>>

VARIABLES
    \* --- debouncedSyncToNativeHostFile (lines 13-23, 352)
    now,                     \* the clock, in milliseconds
    timers,                  \* the timers pending in the platform: [id, due]
    timeout,                 \* Null or the id of the timer set last
    lastInvoked,             \* the instant of the last invocation (0 before the first)
    invocations,             \* how often the debounced function was invoked
    syncRuns                 \* the instants syncDataToNativeHostFile was run at

debounceVars == <<now, timers, timeout, lastInvoked, invocations, syncRuns>>

\* The state of the parts the connection manager, the scanner and the exit
\* handler do not touch.
otherVars == <<obsVars, handlerVars, debounceVars>>

vars == <<connVars, detVars, exitVars, otherVars>>

NoResult == [kind |-> "pending", val |-> <<>>]
EmptyMap == [k \in {} |-> Null]
MapPut(f, k, v) == [x \in (DOMAIN f) \cup {k} |-> IF x = k THEN v ELSE f[x]]
MapDelete(f, k) == [x \in (DOMAIN f) \ {k} |-> f[x]]

ConnInit ==
    /\ connectionStatus = "DISCONNECTED"
    /\ nativePort = Null
    /\ connectionPromise = "none"
    /\ requestPromises = EmptyMap
    /\ requestIdCounter = 0
    /\ ports = <<>>
    /\ posted = <<>>
    /\ lastInbound = [request_id |-> NoId, action |-> "none", success |-> FALSE, text |-> "a"]
    /\ inboundCount = 0
    /\ mpvExitedCalls = <<>>
    /\ pc = [c \in Calls |-> "idle"]
    /\ awaited = [c \in Calls |-> "none"]
    /\ sentId = [c \in Calls |-> NoId]
    /\ outer = [c \in Calls |-> Unsettled]
    /\ result = [c \in Calls |-> NoResult]
    /\ callLog = [c \in Calls |-> "none"]
    /\ onMessageThrew = FALSE

\* Ports that were opened and whose disconnect has not been delivered yet.
LivePorts == {p \in DOMAIN ports : ports[p] \in {"open", "broken"}}

\* Variant: platform events are dispatched although continuations are queued.
MicrotaskPending_Never == FALSE

\* Promise continuations are queued as microtasks and run before the event
\* loop dispatches the next platform event.
MicrotaskPending == \E c \in Calls : pc[c] \in {"awaitConn", "settled"}

\* ------------------------------------------------- connectToNativeHost
\* opens = FALSE: chrome.runtime.connectNative throws inside the executor,
\* so the promise is rejected and line 256 is never reached.
connectToNativeHost(opens) ==
    IF connectionStatus # "DISCONNECTED"
    THEN UNCHANGED <<connectionStatus, connectionPromise, nativePort, ports>>
    ELSE IF opens
         THEN /\ ports' = Append(ports, "open")
              /\ nativePort' = Len(ports) + 1
              /\ connectionStatus' = "CONNECTED"
              /\ connectionPromise' = "resolved"
         ELSE /\ ports' = Append(ports, "failed")
              /\ nativePort' = nativePort
              /\ connectionStatus' = "CONNECTING"
              /\ connectionPromise' = "rejected"

connUnchanged == UNCHANGED <<connectionStatus, connectionPromise, nativePort, ports>>

\* --------------------------------------------------- callNativeHost, send
\* nativePort.postMessage throws when the handle is null or the port is no
\* longer usable.
PostMessageSucceeds == nativePort # Null /\ ports[nativePort] = "open"

\* Bug variant: the catch block also resets the connection synchronously.
sendFailure_ResetsConnection(c, requestId) ==
    /\ outer' = [outer EXCEPT ![c] = Settle(outer[c], Rejected(SendError))]
    /\ requestPromises' = MapDelete(requestPromises, requestId)
    /\ pc' = [pc EXCEPT ![c] = "settled"]
    /\ connectionStatus' = "DISCONNECTED"
    /\ nativePort' = Null
    /\ UNCHANGED <<posted, connectionPromise, ports>>

\* Bug variant: the catch block fails every pending request.
sendFailure_RejectsAll(c, requestId) ==
    /\ outer' = [b \in Calls |->
                   IF b = c \/ (\E id \in DOMAIN requestPromises : requestPromises[id] = b)
                   THEN Settle(outer[b], Rejected(SendError)) ELSE outer[b]]
    /\ requestPromises' = EmptyMap
    /\ pc' = [b \in Calls |->
                   IF b = c \/ (\E id \in DOMAIN requestPromises : requestPromises[id] = b)
                   THEN "settled" ELSE pc[b]]
    /\ UNCHANGED posted
    /\ connUnchanged

\* Bug variant: the catch block removes the entry without calling reject.
sendFailure_NoReject(c, requestId) ==
    /\ UNCHANGED outer
    /\ requestPromises' = MapDelete(requestPromises, requestId)
    /\ pc' = [pc EXCEPT ![c] = "pending"]
    /\ UNCHANGED posted
    /\ connUnchanged

\* catch block, lines 305-310: only this request is failed.
sendFailure(c, requestId) ==
    /\ outer' = [outer EXCEPT ![c] = Settle(outer[c], Rejected(SendError))]
    /\ requestPromises' = MapDelete(requestPromises, requestId)
    /\ pc' = [pc EXCEPT ![c] = "settled"]
    /\ UNCHANGED posted
    /\ connUnchanged

\* Bug variant: the counter advances only when the message was posted.
ensureSend_CounterOnSuccess(c) ==
    LET requestId == ReqId(requestIdCounter) IN
    /\ sentId' = [sentId EXCEPT ![c] = requestId]
    /\ IF PostMessageSucceeds
       THEN /\ requestIdCounter' = requestIdCounter + 1
            /\ requestPromises' = MapPut(requestPromises, requestId, c)
            /\ posted' = Append(posted, [port |-> nativePort, request_id |-> requestId, message |-> c])
            /\ pc' = [pc EXCEPT ![c] = "pending"]
            /\ UNCHANGED outer
            /\ connUnchanged
       ELSE /\ UNCHANGED requestIdCounter
            /\ sendFailure(c, requestId)

\* lines 299-310
ensureSend(c) ==
    LET requestId == ReqId(requestIdCounter) IN
    /\ requestIdCounter' = requestIdCounter + 1
    /\ sentId' = [sentId EXCEPT ![c] = requestId]
    /\ IF PostMessageSucceeds
       THEN /\ requestPromises' = MapPut(requestPromises, requestId, c)
            /\ posted' = Append(posted, [port |-> nativePort, request_id |-> requestId, message |-> c])
            /\ pc' = [pc EXCEPT ![c] = "pending"]
            /\ UNCHANGED outer
            /\ connUnchanged
       ELSE sendFailure(c, requestId)

\* callNativeHost up to its first suspension: lines 290-297, and 299-310 when
\* the connection is already CONNECTED (no await is reached).
CallNativeHost(c, opens) ==
    /\ pc[c] = "idle"
    /\ \A b \in Calls : b < c => pc[b] # "idle"
    /\ IF connectionStatus # "CONNECTED"
       THEN /\ connectionStatus = "DISCONNECTED" => Len(ports) < MaxConnects
            /\ connectToNativeHost(opens)
            /\ awaited' = [awaited EXCEPT ![c] = connectionPromise']
            /\ pc' = [pc EXCEPT ![c] = "awaitConn"]
            /\ UNCHANGED <<requestPromises, requestIdCounter, posted, sentId, outer>>
       ELSE /\ ensureSend(c)
            /\ UNCHANGED awaited
    /\ UNCHANGED <<lastInbound, inboundCount, mpvExitedCalls, result, callLog>>
    /\ UNCHANGED onMessageThrew
    /\ UNCHANGED detVars
    /\ UNCHANGED otherVars
    /\ UNCHANGED exitVars

\* The continuation of `await connectToNativeHost()` (line 296): a rejected
\* connection promise makes ensureConnectedAndSend reject, which line 314
\* forwards to reject; otherwise lines 299-310 run.
ResumeAfterConnect(c) ==
    /\ pc[c] = "awaitConn"
    /\ IF awaited[c] = "rejected"
       THEN /\ outer' = [outer EXCEPT ![c] = Settle(outer[c], Rejected(ConnectError))]
            /\ pc' = [pc EXCEPT ![c] = "settled"]
            /\ UNCHANGED <<requestPromises, requestIdCounter, posted, sentId>>
            /\ connUnchanged
       ELSE ensureSend(c)
    /\ UNCHANGED <<awaited, lastInbound, inboundCount, mpvExitedCalls, result, callLog>>
    /\ UNCHANGED onMessageThrew
    /\ UNCHANGED detVars
    /\ UNCHANGED otherVars
    /\ UNCHANGED exitVars

\* The .then / .catch chain of lines 315-327.
\* Bug variant: the .catch handler logs and rethrows.
CompletionOf_Rethrows(p) ==
    IF p.kind = "resolved"
    THEN [result |-> [kind |-> "fulfilled", val |-> p.val],
          log |-> IF p.val.success THEN "info" ELSE "error"]
    ELSE [result |-> [kind |-> "rejected", val |-> p.val], log |-> "error"]

\* Bug variant: the .catch handler returns the envelope without logging.
CompletionOf_SilentFailure(p) ==
    IF p.kind = "resolved"
    THEN [result |-> [kind |-> "fulfilled", val |-> p.val],
          log |-> IF p.val.success THEN "info" ELSE "error"]
    ELSE [result |-> [kind |-> "fulfilled",
                      val |-> [success |-> FALSE,
                               error |-> <<"Could not communicate with native host. Error: ">> \o p.val]],
          log |-> "none"]

\* The promise returned by callNativeHost: the .then handler returns the
\* response, the .catch handler returns the error envelope.
CompletionOf(p) ==
    IF p.kind = "resolved"
    THEN [result |-> [kind |-> "fulfilled", val |-> p.val],
          log |-> IF p.val.success THEN "info" ELSE "error"]
    ELSE [result |-> [kind |-> "fulfilled",
                      val |-> [success |-> FALSE,
                               error |-> <<"Could not communicate with native host. Error: ">> \o p.val]],
          log |-> "error"]

Complete(c) ==
    /\ pc[c] = "settled"
    /\ result' = [result EXCEPT ![c] = CompletionOf(outer[c]).result]
    /\ callLog' = [callLog EXCEPT ![c] = CompletionOf(outer[c]).log]
    /\ pc' = [pc EXCEPT ![c] = "done"]
    /\ UNCHANGED <<connectionStatus, nativePort, connectionPromise, requestPromises,
                   requestIdCounter, ports, posted, lastInbound, inboundCount,
                   mpvExitedCalls, awaited, sentId, outer>>
    /\ UNCHANGED onMessageThrew
    /\ UNCHANGED detVars
    /\ UNCHANGED otherVars
    /\ UNCHANGED exitVars

\* ------------------------------------------------------ port listeners
\* Bug variant: responses matched by send order (oldest pending entry).
MatchingRequest_BySendOrder(m) ==
    IF m.request_id # NoId /\ DOMAIN requestPromises # {}
    THEN {ReqId(n) : n \in {k \in 0..MaxCalls :
                              /\ ReqId(k) \in DOMAIN requestPromises
                              /\ \A j \in 0..(k - 1) : ReqId(j) \notin DOMAIN requestPromises}}
    ELSE {}

\* Which pending entry an inbound message settles (line 244): the one stored
\* under the message's own request_id, if any.
MatchingRequest(m) ==
    IF m.request_id # NoId /\ m.request_id \in DOMAIN requestPromises
    THEN {m.request_id}
    ELSE {}

\* handleMpvExited up to its first await, lines 264-270: it returns at once
\* without a folderId, and otherwise waits for storage.get().
handleMpvExited(data) ==
    /\ mpvExitedCalls' = Append(mpvExitedCalls, data)
    /\ exitPc' = Append(exitPc, IF "folderId" \in DOMAIN data THEN "storage" ELSE "done")
    /\ clearData' = Append(clearData, EmptyMap)
    /\ handleClearCalls' = Append(handleClearCalls, 0)

\* `requestPromises[request_id]` is truthy although the id is no key of the
\* map itself: the value is an inherited property, which has no .resolve.
InheritedHit(m) ==
    /\ m.request_id \in InheritedKeys
    /\ m.request_id \notin DOMAIN requestPromises

\* nativePort.onMessage listener, lines 242-253.  With an inherited property
\* the condition of line 244 holds and line 245 throws a TypeError.
onMessage(m) ==
    LET responseData == ResponseData(m)
        hit == MatchingRequest(m) IN
    IF hit # {}
    THEN LET id == CHOOSE i \in hit : TRUE
             c == requestPromises[id] IN
         /\ outer' = [outer EXCEPT ![c] = Settle(outer[c], Resolved(responseData))]
         /\ pc' = [pc EXCEPT ![c] = IF outer[c].kind = "none" THEN "settled" ELSE pc[c]]
         /\ requestPromises' = MapDelete(requestPromises, id)
         /\ UNCHANGED <<mpvExitedCalls, exitPc, clearData, handleClearCalls, onMessageThrew>>
    ELSE IF InheritedHit(m)
         THEN /\ onMessageThrew' = TRUE
              /\ UNCHANGED <<outer, pc, requestPromises, mpvExitedCalls, exitPc,
                             clearData, handleClearCalls>>
    ELSE IF responseData.action = "mpv_exited"
         THEN /\ handleMpvExited(responseData)
              /\ UNCHANGED <<outer, pc, requestPromises, onMessageThrew>>
         ELSE UNCHANGED <<outer, pc, requestPromises, mpvExitedCalls, exitPc,
                          clearData, handleClearCalls, onMessageThrew>>

\* The host delivers message m on port p.
Deliver(p, m) ==
    /\ ~MicrotaskPending
    /\ p \in DOMAIN ports /\ ports[p] = "open"
    /\ inboundCount < MaxInbound
    /\ inboundCount' = inboundCount + 1
    /\ lastInbound' = m
    /\ onMessage(m)
    /\ UNCHANGED <<connectionStatus, nativePort, connectionPromise, requestIdCounter,
                   ports, posted, awaited, sentId, result, callLog>>
    /\ UNCHANGED <<storedFolders, clear_on_completion>>
    /\ UNCHANGED detVars
    /\ UNCHANGED otherVars

\* Bug variant: the map is cleared without rejecting its entries.
RejectedOnDisconnect_None == {}

\* The calls whose reject is invoked by the loop of lines 230-232.
RejectedOnDisconnect == {requestPromises[id] : id \in DOMAIN requestPromises}

\* Bug variant: line 235 missing, the status is left as it was.
onDisconnect_KeepsStatus(errorMessage) ==
    /\ outer' = [c \in Calls |->
                   IF c \in RejectedOnDisconnect
                   THEN Settle(outer[c], Rejected(DisconnectedError(errorMessage)))
                   ELSE outer[c]]
    /\ pc' = [c \in Calls |->
                IF c \in RejectedOnDisconnect /\ outer[c].kind = "none"
                THEN "settled" ELSE pc[c]]
    /\ nativePort' = Null
    /\ requestPromises' = EmptyMap
    /\ UNCHANGED <<connectionStatus, connectionPromise>>

\* onDisconnect listener, lines 224-238.  reject() on the already resolved
\* connection promise (line 237) has no effect.
onDisconnect(errorMessage) ==
    /\ outer' = [c \in Calls |->
                   IF c \in RejectedOnDisconnect
                   THEN Settle(outer[c], Rejected(DisconnectedError(errorMessage)))
                   ELSE outer[c]]
    /\ pc' = [c \in Calls |->
                IF c \in RejectedOnDisconnect /\ outer[c].kind = "none"
                THEN "settled" ELSE pc[c]]
    /\ nativePort' = Null
    /\ connectionStatus' = "DISCONNECTED"
    /\ requestPromises' = EmptyMap
    /\ UNCHANGED connectionPromise

\* The platform reports that port p was closed.
Disconnect(p, errorMessage) ==
    /\ ~MicrotaskPending
    /\ p \in LivePorts
    /\ ports' = [ports EXCEPT ![p] = "closed"]
    /\ onDisconnect(errorMessage)
    /\ UNCHANGED <<requestIdCounter, posted, lastInbound, inboundCount,
                   mpvExitedCalls, awaited, sentId, result, callLog>>
    /\ UNCHANGED onMessageThrew
    /\ UNCHANGED detVars
    /\ UNCHANGED otherVars
    /\ UNCHANGED exitVars

\* The host process dies: the port stops accepting messages, and the
\* disconnect notification has not been dispatched yet.
BreakPort(p) ==
    /\ p \in DOMAIN ports /\ ports[p] = "open"
    /\ ports' = [ports EXCEPT ![p] = "broken"]
    /\ UNCHANGED <<connectionStatus, nativePort, connectionPromise, requestPromises,
                   requestIdCounter, posted, lastInbound, inboundCount,
                   mpvExitedCalls, pc, awaited, sentId, outer, result, callLog>>
    /\ UNCHANGED onMessageThrew
    /\ UNCHANGED detVars
    /\ UNCHANGED otherVars
    /\ UNCHANGED exitVars

\* ------------------------------------------------- handleMpvExited
\* Bug variant: the exit code is not looked at.
ShouldAutoClear_AnyCode(shouldClear, returnCode) == shouldClear

\* `if (shouldClear) { if (returnCode === 99) {` lines 273-276
ShouldAutoClear(shouldClear, returnCode) == shouldClear /\ returnCode = PlaylistFinished

\* storage.get() of line 270 resolves for invocation i; with the flag set and
\* code 99 handleClear is called and waits for its own storage.get().
ExitStorageRead(i) ==
    /\ ~MicrotaskPending
    /\ i \in DOMAIN exitPc /\ exitPc[i] = "storage"
    /\ IF ShouldAutoClear(clear_on_completion, mpvExitedCalls[i].returnCode)
       THEN /\ exitPc' = [exitPc EXCEPT ![i] = "clearGet"]
            /\ handleClearCalls' = [handleClearCalls EXCEPT ![i] = @ + 1]
       ELSE /\ exitPc' = [exitPc EXCEPT ![i] = "done"]
            /\ UNCHANGED handleClearCalls
    /\ UNCHANGED <<storedFolders, clear_on_completion, clearData>>
    /\ UNCHANGED connVars
    /\ UNCHANGED detVars
    /\ UNCHANGED otherVars

\* handleClear, lines 753-755: storage.get() resolves, the playlist of the
\* folder is replaced by [] in the object read and storage.set is called.
\* For a folder that is not stored, line 754 throws a TypeError.
ClearStorageRead(i) ==
    /\ ~MicrotaskPending
    /\ i \in DOMAIN exitPc /\ exitPc[i] = "clearGet"
    /\ IF mpvExitedCalls[i].folderId \in DOMAIN storedFolders
       THEN /\ clearData' = [clearData EXCEPT ![i] =
                               [storedFolders EXCEPT ![mpvExitedCalls[i].folderId] = <<>>]]
            /\ exitPc' = [exitPc EXCEPT ![i] = "clearSet"]
       ELSE /\ exitPc' = [exitPc EXCEPT ![i] = "threw"]
            /\ UNCHANGED clearData
    /\ UNCHANGED <<storedFolders, clear_on_completion, handleClearCalls>>
    /\ UNCHANGED connVars
    /\ UNCHANGED detVars
    /\ UNCHANGED otherVars

\* handleClear, lines 755-758: storage.set(data) has written the object.
ClearStorageWritten(i) ==
    /\ ~MicrotaskPending
    /\ i \in DOMAIN exitPc /\ exitPc[i] = "clearSet"
    /\ storedFolders' = clearData[i]
    /\ exitPc' = [exitPc EXCEPT ![i] = "done"]
    /\ UNCHANGED <<clear_on_completion, clearData, handleClearCalls>>
    /\ UNCHANGED connVars
    /\ UNCHANGED detVars
    /\ UNCHANGED otherVars

ExitNext ==
    \/ \E c \in Calls : CallNativeHost(c, TRUE)
    \/ \E c \in Calls : ResumeAfterConnect(c)
    \/ \E p \in DOMAIN ports, m \in ExitMessages : Deliver(p, m)
    \/ \E i \in 1..MaxInbound : ExitStorageRead(i)
    \/ \E i \in 1..MaxInbound : ClearStorageRead(i)
    \/ \E i \in 1..MaxInbound : ClearStorageWritten(i)

ConnNext ==
    \/ \E c \in Calls, opens \in BOOLEAN : CallNativeHost(c, opens)
    \/ \E c \in Calls : ResumeAfterConnect(c)
    \/ \E c \in Calls : Complete(c)
    \/ \E p \in DOMAIN ports, m \in InboundMessages : Deliver(p, m)
    \/ \E p \in DOMAIN ports, e \in DisconnectErrors : Disconnect(p, e)
    \/ \E p \in DOMAIN ports : BreakPort(p)


\* ======================================================================
\* Stream scanner
\* ======================================================================
Scans == 1..MaxConcurrent
SequentialScans == {d \in Scans : d <= MaxScans}
UserTab == 1                         \* the tab the context menu was used in
Tabs == 1..(MaxConcurrent + 1)
DefaultTimeout == 60
ConfiguredTimeouts == {0, 3}         \* 0: the setting is unset / falsy

\* A URL is a sequence of tokens; "?" starts the query string.
Urls ==
    {<<"https://h", "/a", ".m3u8">>,
     <<"https://h", "/page", "?", ".m3u8">>,
     <<"no scheme", ".m3u8">>}
ContentTypes ==
    {<<>>, <<"application/vnd.apple.mpegurl">>, <<"text/html">>}
NoHeaders == <<"no responseHeaders">>

\* Bug variant: the message is built from timeoutDuration (milliseconds).
TimeoutError_Millis(seconds) == <<"M3U8 detection timed out after ", seconds * 1000, " seconds.">>
\* line 1000
TimeoutError(seconds) == <<"M3U8 detection timed out after ", seconds, " seconds.">>
ClosedError == <<"Tab was closed before M3U8 detection completed.">>
CreateError == <<"Failed to create scanner window.">>

ScannerInit ==
    /\ lastDetectedUrls = EmptyMap
    /\ m3u8DetectionPromises = EmptyMap
    /\ tabState = [t \in Tabs |-> IF t = UserTab THEN "open" ELSE "none"]
    /\ notified = [count |-> 0, last |-> <<>>]
    /\ observedCount = 0
    /\ listenerThrew = FALSE
    /\ scanPc = [d \in Scans |-> "idle"]
    /\ timeoutInSeconds = [d \in Scans |-> 0]
    /\ scannerTab = [d \in Scans |-> Null]
    /\ originalTab = [d \in Scans |-> Null]
    /\ timer = [d \in Scans |-> "none"]
    /\ detect = [d \in Scans |-> Unsettled]
    /\ settleCalls = [d \in Scans |-> 0]
    /\ removeRequested = [d \in Scans |-> FALSE]
    /\ focusCalls = [d \in Scans |-> <<>>]
    /\ scanResult = [d \in Scans |-> Unsettled]

\* The scanner with the timeout setting as the user may have stored it.
DetInit == ScannerInit /\ configured \in ConfiguredTimeouts

\* The continuation of a settled promise runs before the next platform event.
ScanMicrotaskPending == \E d \in Scans : scanPc[d] = "settled"

\* ------------------------------------------- _waitForM3u8Detection
\* Bug variant: the resolve handler empties the whole registry.
taskResolve_ClearsRegistry(d, url) ==
    /\ timer' = [timer EXCEPT ![d] = IF @ = "armed" THEN "cleared" ELSE @]
    /\ detect' = [detect EXCEPT ![d] = Settle(@, Resolved(url))]
    /\ settleCalls' = [settleCalls EXCEPT ![d] = @ + 1]
    /\ scanPc' = [scanPc EXCEPT ![d] = IF detect[d].kind = "none" THEN "settled" ELSE @]
    /\ m3u8DetectionPromises' = EmptyMap

\* Bug variant: the resolve handler does not cancel the timer.
taskResolve_NoClearTimeout(d, url) ==
    /\ UNCHANGED timer
    /\ detect' = [detect EXCEPT ![d] = Settle(@, Resolved(url))]
    /\ settleCalls' = [settleCalls EXCEPT ![d] = @ + 1]
    /\ scanPc' = [scanPc EXCEPT ![d] = IF detect[d].kind = "none" THEN "settled" ELSE @]
    /\ m3u8DetectionPromises' = MapDelete(m3u8DetectionPromises, scannerTab[d])

\* resolve handler stored in the registry, lines 1007-1011
taskResolve(d, url) ==
    /\ timer' = [timer EXCEPT ![d] = IF @ = "armed" THEN "cleared" ELSE @]
    /\ detect' = [detect EXCEPT ![d] = Settle(@, Resolved(url))]
    /\ settleCalls' = [settleCalls EXCEPT ![d] = @ + 1]
    /\ scanPc' = [scanPc EXCEPT ![d] = IF detect[d].kind = "none" THEN "settled" ELSE @]
    /\ m3u8DetectionPromises' = MapDelete(m3u8DetectionPromises, scannerTab[d])

\* Bug variant: the reject handler does not cancel the timer.
taskReject_NoClearTimeout(d, err) ==
    /\ UNCHANGED timer
    /\ detect' = [detect EXCEPT ![d] = Settle(@, Rejected(err))]
    /\ settleCalls' = [settleCalls EXCEPT ![d] = @ + 1]
    /\ scanPc' = [scanPc EXCEPT ![d] = IF detect[d].kind = "none" THEN "settled" ELSE @]
    /\ m3u8DetectionPromises' = MapDelete(m3u8DetectionPromises, scannerTab[d])

\* reject handler stored in the registry, lines 1012-1016
taskReject(d, err) ==
    /\ timer' = [timer EXCEPT ![d] = IF @ = "armed" THEN "cleared" ELSE @]
    /\ detect' = [detect EXCEPT ![d] = Settle(@, Rejected(err))]
    /\ settleCalls' = [settleCalls EXCEPT ![d] = @ + 1]
    /\ scanPc' = [scanPc EXCEPT ![d] = IF detect[d].kind = "none" THEN "settled" ELSE @]
    /\ m3u8DetectionPromises' = MapDelete(m3u8DetectionPromises, scannerTab[d])

\* Bug variant: the callback rejects and leaves the entry in the registry.
timerCallback_KeepsEntry(d) ==
    IF scannerTab[d] \in DOMAIN m3u8DetectionPromises
    THEN /\ detect' = [detect EXCEPT ![d] = Settle(@, Rejected(TimeoutError(timeoutInSeconds[d])))]
         /\ settleCalls' = [settleCalls EXCEPT ![d] = @ + 1]
         /\ scanPc' = [scanPc EXCEPT ![d] = IF detect[d].kind = "none" THEN "settled" ELSE @]
         /\ UNCHANGED m3u8DetectionPromises
    ELSE UNCHANGED <<m3u8DetectionPromises, detect, settleCalls, scanPc>>

\* setTimeout callback, lines 995-1002
timerCallback(d) ==
    IF scannerTab[d] \in DOMAIN m3u8DetectionPromises
    THEN /\ m3u8DetectionPromises' = MapDelete(m3u8DetectionPromises, scannerTab[d])
         /\ detect' = [detect EXCEPT ![d] = Settle(@, Rejected(TimeoutError(timeoutInSeconds[d])))]
         /\ settleCalls' = [settleCalls EXCEPT ![d] = @ + 1]
         /\ scanPc' = [scanPc EXCEPT ![d] = IF detect[d].kind = "none" THEN "settled" ELSE @]
    ELSE UNCHANGED <<m3u8DetectionPromises, detect, settleCalls, scanPc>>

\* The deadline of scan d passes.
TimerFire(d) ==
    /\ ~ScanMicrotaskPending
    /\ timer[d] = "armed"
    /\ timer' = [timer EXCEPT ![d] = "fired"]
    /\ timerCallback(d)
    /\ UNCHANGED <<lastDetectedUrls, tabState, notified, listenerThrew, configured,
                   timeoutInSeconds, scannerTab, originalTab, removeRequested,
                   focusCalls, scanResult>>
    /\ UNCHANGED observedCount
    /\ UNCHANGED connVars
    /\ UNCHANGED otherVars
    /\ UNCHANGED exitVars

\* ----------------------------------------------------- findM3u8InUrl
\* Entry, up to `await storage.get()` (line 1045).
StartScan(d, orig) ==
    /\ scanPc[d] = "idle"
    /\ \A b \in Scans : b < d => scanPc[b] # "idle"
    /\ originalTab' = [originalTab EXCEPT ![d] = orig]
    /\ scanPc' = [scanPc EXCEPT ![d] = "storage"]
    /\ UNCHANGED <<lastDetectedUrls, m3u8DetectionPromises, tabState, notified,
                   listenerThrew, configured, timeoutInSeconds, scannerTab, timer,
                   detect, settleCalls, removeRequested, focusCalls, scanResult>>
    /\ UNCHANGED observedCount
    /\ UNCHANGED connVars
    /\ UNCHANGED otherVars
    /\ UNCHANGED exitVars

\* const timeoutInSeconds = ...stream_scanner_timeout || 60;   (line 1046)
TimeoutFor(setting) == IF setting # 0 THEN setting ELSE DefaultTimeout

\* storage.get() resolves; chrome.windows.create is called (lines 1046-1048, 966).
StorageRead(d) ==
    /\ scanPc[d] = "storage"
    /\ timeoutInSeconds' = [timeoutInSeconds EXCEPT ![d] = TimeoutFor(configured)]
    /\ scanPc' = [scanPc EXCEPT ![d] = "creating"]
    /\ UNCHANGED <<configured, lastDetectedUrls, m3u8DetectionPromises, tabState, notified,
                   listenerThrew, scannerTab, originalTab, timer, detect,
                   settleCalls, removeRequested, focusCalls, scanResult>>
    /\ UNCHANGED observedCount
    /\ UNCHANGED connVars
    /\ UNCHANGED otherVars
    /\ UNCHANGED exitVars

FreshTab == CHOOSE t \in Tabs : tabState[t] = "none" /\ \A u \in Tabs : tabState[u] = "none" => t <= u

\* The browser creates the popup window (ok) or returns none (~ok); the page
\* starts loading before the callback reaches the service worker.
WindowCreated(d, ok) ==
    /\ scanPc[d] = "creating"
    /\ IF ok
       THEN /\ \E t \in Tabs : tabState[t] = "none"
            /\ tabState' = [tabState EXCEPT ![FreshTab] = "open"]
            /\ scannerTab' = [scannerTab EXCEPT ![d] = FreshTab]
            /\ scanPc' = [scanPc EXCEPT ![d] = "created"]
       ELSE /\ scanPc' = [scanPc EXCEPT ![d] = "createFailed"]
            /\ UNCHANGED <<tabState, scannerTab>>
    /\ UNCHANGED <<lastDetectedUrls, m3u8DetectionPromises, notified, listenerThrew,
                   configured, timeoutInSeconds, originalTab, timer, detect,
                   settleCalls, removeRequested, focusCalls, scanResult>>
    /\ UNCHANGED observedCount
    /\ UNCHANGED connVars
    /\ UNCHANGED otherVars
    /\ UNCHANGED exitVars

\* The continuation of `await _createScannerWindow(url)`: line 1049 calls
\* _waitForM3u8Detection, which arms the timer and registers the task
\* (lines 993-1017).
RegisterTask(d) ==
    /\ ~ScanMicrotaskPending
    /\ scanPc[d] = "created"
    /\ timer' = [timer EXCEPT ![d] = "armed"]
    /\ m3u8DetectionPromises' = MapPut(m3u8DetectionPromises, scannerTab[d], d)
    /\ scanPc' = [scanPc EXCEPT ![d] = "waiting"]
    /\ UNCHANGED <<lastDetectedUrls, tabState, notified, listenerThrew, configured,
                   timeoutInSeconds, scannerTab, originalTab, detect, settleCalls,
                   removeRequested, focusCalls, scanResult>>
    /\ UNCHANGED observedCount
    /\ UNCHANGED connVars
    /\ UNCHANGED otherVars
    /\ UNCHANGED exitVars

\* _createScannerWindow threw (lines 973-975): the awaited promise rejects.
CreateFailed(d) ==
    /\ ~ScanMicrotaskPending
    /\ scanPc[d] = "createFailed"
    /\ detect' = [detect EXCEPT ![d] = Rejected(CreateError)]
    /\ scanPc' = [scanPc EXCEPT ![d] = "settled"]
    /\ UNCHANGED <<lastDetectedUrls, m3u8DetectionPromises, tabState, notified,
                   listenerThrew, configured, timeoutInSeconds, scannerTab,
                   originalTab, timer, settleCalls, removeRequested, focusCalls,
                   scanResult>>
    /\ UNCHANGED observedCount
    /\ UNCHANGED connVars
    /\ UNCHANGED otherVars
    /\ UNCHANGED exitVars

FocusError == <<"focus failed">>

\* Bug variant: the update calls are awaited without a .catch.
focusAwaited_NoCatch(ok) == IF ok THEN "fulfilled" ELSE "rejected"

\* `await chrome.windows.update(...).catch(() => {})` (line 1028) and the same
\* for chrome.tabs.update (line 1031): the awaited promise is fulfilled
\* whether the call succeeded (ok) or not.
focusAwaited(ok) == "fulfilled"

\* finally block, lines 1052-1059, up to the first await of _focusOriginalTab.
\* chrome.windows.remove is not awaited; when the window is already gone its
\* rejection is dropped by the .catch of line 1056.
Finally(d) ==
    /\ scanPc[d] = "settled"
    /\ IF scannerTab[d] # Null
       THEN /\ removeRequested' = [removeRequested EXCEPT ![d] = TRUE]
            /\ tabState' = [tabState EXCEPT ![scannerTab[d]] = IF @ = "open" THEN "closing" ELSE @]
       ELSE UNCHANGED <<removeRequested, tabState>>
    /\ IF originalTab[d] = Null
       THEN /\ scanPc' = [scanPc EXCEPT ![d] = "done"]
            /\ scanResult' = [scanResult EXCEPT ![d] = detect[d]]
            /\ UNCHANGED focusCalls
       ELSE /\ focusCalls' = [focusCalls EXCEPT ![d] = Append(@, "windows.update")]
            /\ scanPc' = [scanPc EXCEPT ![d] = "focusWindow"]
            /\ UNCHANGED scanResult
    /\ UNCHANGED <<lastDetectedUrls, m3u8DetectionPromises, notified, listenerThrew,
                   configured, timeoutInSeconds, scannerTab, originalTab, timer,
                   detect, settleCalls>>
    /\ UNCHANGED observedCount
    /\ UNCHANGED connVars
    /\ UNCHANGED otherVars
    /\ UNCHANGED exitVars

\* chrome.windows.update settles (ok or not); line 1031 calls
\* chrome.tabs.update.  A rejected await would leave the finally block with
\* that error.
FocusWindowDone(d, ok) ==
    /\ ~ScanMicrotaskPending
    /\ scanPc[d] = "focusWindow"
    /\ IF focusAwaited(ok) = "fulfilled"
       THEN /\ focusCalls' = [focusCalls EXCEPT ![d] = Append(@, "tabs.update")]
            /\ scanPc' = [scanPc EXCEPT ![d] = "focusTab"]
            /\ UNCHANGED scanResult
       ELSE /\ scanResult' = [scanResult EXCEPT ![d] = Rejected(FocusError)]
            /\ scanPc' = [scanPc EXCEPT ![d] = "done"]
            /\ UNCHANGED focusCalls
    /\ UNCHANGED <<lastDetectedUrls, m3u8DetectionPromises, tabState, notified,
                   listenerThrew, configured, timeoutInSeconds, scannerTab,
                   originalTab, timer, detect, settleCalls, removeRequested>>
    /\ UNCHANGED observedCount
    /\ UNCHANGED connVars
    /\ UNCHANGED otherVars
    /\ UNCHANGED exitVars

\* chrome.tabs.update settles (ok or not); findM3u8InUrl settles with the
\* outcome of its try block (return detectedUrl, or the error thrown).
FocusTabDone(d, ok) ==
    /\ ~ScanMicrotaskPending
    /\ scanPc[d] = "focusTab"
    /\ scanResult' = [scanResult EXCEPT ![d] =
                        IF focusAwaited(ok) = "fulfilled" THEN detect[d]
                        ELSE Rejected(FocusError)]
    /\ scanPc' = [scanPc EXCEPT ![d] = "done"]
    /\ UNCHANGED <<lastDetectedUrls, m3u8DetectionPromises, tabState, notified,
                   listenerThrew, configured, timeoutInSeconds, scannerTab,
                   originalTab, timer, detect, settleCalls, removeRequested,
                   focusCalls>>
    /\ UNCHANGED observedCount
    /\ UNCHANGED connVars
    /\ UNCHANGED otherVars
    /\ UNCHANGED exitVars

\* ------------------------------------------------ webRequest observer
\* new URL(details.url): parses when the first token is a scheme + host.
UrlParses(url) == url[1] = "https://h"
\* url.pathname: the tokens after the origin, up to the query string.
Pathname(url) ==
    LET q == {i \in DOMAIN url : url[i] = "?"}
        last == IF q = {} THEN Len(url) ELSE (CHOOSE i \in q : \A j \in q : i <= j) - 1
    IN SubSeq(url, 2, last)
EndsWithM3u8(path) == Len(path) > 0 /\ path[Len(path)] = ".m3u8"

\* lines 1070-1079
IsM3U8ContentType(headers) ==
    /\ headers # NoHeaders
    /\ \E i \in DOMAIN headers :
          headers[i] \in {"application/vnd.apple.mpegurl", "application/x-mpegURL",
                          "audio/mpegurl", "audio/x-mpegurl"}
\* lines 1084-1090
IsM3U8Url(url) == UrlParses(url) /\ EndsWithM3u8(Pathname(url))

\* Bug variant: the two checks are combined with && instead of ||.
IsSignatureMatch_RequiresBoth(details) ==
    /\ details.responseHeaders # NoHeaders
    /\ (IsM3U8ContentType(details.responseHeaders) /\ IsM3U8Url(details.url))

\* lines 1065-1067 and 1092
IsSignatureMatch(details) ==
    /\ details.responseHeaders # NoHeaders
    /\ (IsM3U8ContentType(details.responseHeaders) \/ IsM3U8Url(details.url))

\* The URLs webRequest reports are absolute URLs the browser itself requested.
RequestedUrls == {u \in Urls : UrlParses(u)}
HeaderDetails == [tabId : Tabs, url : RequestedUrls, responseHeaders : ContentTypes \cup {NoHeaders}]

\* Bug variant: no `return` after resolving the task (line 1102); the
\* notification of line 1109 is sent as well.
onHeadersReceived_AlsoNotifies(details) ==
    IF ~IsSignatureMatch(details)
       \/ (details.tabId \in DOMAIN lastDetectedUrls
              /\ lastDetectedUrls[details.tabId] = details.url)
    THEN UNCHANGED <<lastDetectedUrls, m3u8DetectionPromises, timer, detect,
                     settleCalls, scanPc, notified>>
    ELSE /\ lastDetectedUrls' = MapPut(lastDetectedUrls, details.tabId, details.url)
         /\ notified' = [count |-> notified.count + 1, last |-> <<details.tabId, details.url>>]
         /\ IF details.tabId \in DOMAIN m3u8DetectionPromises
            THEN taskResolve(m3u8DetectionPromises[details.tabId], details.url)
            ELSE UNCHANGED <<m3u8DetectionPromises, timer, detect, settleCalls, scanPc>>

\* Bug variant: the duplicate check of lines 1094-1096 is missing.
onHeadersReceived_NoDedup(details) ==
    IF ~IsSignatureMatch(details)
    THEN UNCHANGED <<lastDetectedUrls, m3u8DetectionPromises, timer, detect,
                     settleCalls, scanPc, notified>>
    ELSE /\ lastDetectedUrls' = MapPut(lastDetectedUrls, details.tabId, details.url)
         /\ IF details.tabId \in DOMAIN m3u8DetectionPromises
            THEN /\ taskResolve(m3u8DetectionPromises[details.tabId], details.url)
                 /\ UNCHANGED notified
            ELSE /\ notified' = [count |-> notified.count + 1, last |-> <<details.tabId, details.url>>]
                 /\ UNCHANGED <<m3u8DetectionPromises, timer, detect, settleCalls, scanPc>>

\* chrome.webRequest.onHeadersReceived listener, lines 1063-1117.
onHeadersReceived(details) ==
    IF ~IsSignatureMatch(details)
       \/ (details.tabId \in DOMAIN lastDetectedUrls
              /\ lastDetectedUrls[details.tabId] = details.url)
    THEN UNCHANGED <<lastDetectedUrls, m3u8DetectionPromises, timer, detect,
                     settleCalls, scanPc, notified>>
    ELSE /\ lastDetectedUrls' = MapPut(lastDetectedUrls, details.tabId, details.url)
         /\ IF details.tabId \in DOMAIN m3u8DetectionPromises
            THEN /\ taskResolve(m3u8DetectionPromises[details.tabId], details.url)
                 /\ UNCHANGED notified
            ELSE /\ notified' = [count |-> notified.count + 1, last |-> <<details.tabId, details.url>>]
                 /\ UNCHANGED <<m3u8DetectionPromises, timer, detect, settleCalls, scanPc>>

\* A response is completed in a tab that exists.
HeadersReceived(details) ==
    /\ ~ScanMicrotaskPending
    /\ tabState[details.tabId] \in {"open", "closing"}
    /\ observedCount < MaxObserved
    /\ observedCount' = IF IsSignatureMatch(details) THEN observedCount + 1 ELSE observedCount
    /\ onHeadersReceived(details)
    /\ UNCHANGED <<tabState, listenerThrew, configured, timeoutInSeconds, scannerTab,
                   originalTab, removeRequested, focusCalls, scanResult>>
    /\ UNCHANGED connVars
    /\ UNCHANGED otherVars
    /\ UNCHANGED exitVars

\* Every details object the listener can be called with, including a URL
\* that `new URL` rejects and a response without responseHeaders.
AllDetails == [tabId : Tabs, url : Urls, responseHeaders : ContentTypes \cup {NoHeaders}]
NoResponse == [tabId |-> Null, url |-> <<>>, responseHeaders |-> NoHeaders]

ObsInit == response = NoResponse /\ matched = FALSE

\* The listener is called with details; the caller keeps the argument and
\* whether the branch of line 1092 was entered.
Observe(details) ==
    /\ ~ScanMicrotaskPending
    /\ tabState[details.tabId] \in {"open", "closing"}
    /\ observedCount < MaxObserved
    /\ observedCount' = IF IsSignatureMatch(details) THEN observedCount + 1 ELSE observedCount
    /\ onHeadersReceived(details)
    /\ response' = details
    /\ matched' = IsSignatureMatch(details)
    /\ UNCHANGED <<tabState, listenerThrew, configured, timeoutInSeconds, scannerTab,
                   originalTab, removeRequested, focusCalls, scanResult>>
    /\ UNCHANGED <<handlerVars, debounceVars>>
    /\ UNCHANGED connVars
    /\ UNCHANGED exitVars

\* -------------------------------------------------------- tab listeners
\* Bug variant: the listener rejects without looking for a task entry.
removedTabHasTask_Always(tabId) == TRUE

\* `if (m3u8DetectionPromises[tabId])`, line 1133
removedTabHasTask(tabId) == tabId \in DOMAIN m3u8DetectionPromises

\* Bug variant: lines 1136-1138 missing, the cached URL survives the close.
onRemoved_KeepsCache(tabId) ==
    IF tabId \in DOMAIN m3u8DetectionPromises
    THEN /\ taskReject(m3u8DetectionPromises[tabId], ClosedError)
         /\ UNCHANGED <<lastDetectedUrls, listenerThrew>>
    ELSE UNCHANGED <<m3u8DetectionPromises, timer, detect, settleCalls, scanPc,
                     listenerThrew, lastDetectedUrls>>

\* chrome.tabs.onRemoved listener, lines 1128-1139.  Reading .reject of a
\* missing entry would throw a TypeError and end the listener.
onRemoved(tabId) ==
    IF removedTabHasTask(tabId)
    THEN IF tabId \in DOMAIN m3u8DetectionPromises
         THEN /\ taskReject(m3u8DetectionPromises[tabId], ClosedError)
              /\ lastDetectedUrls' = MapDelete(lastDetectedUrls, tabId)
              /\ UNCHANGED listenerThrew
         ELSE /\ listenerThrew' = TRUE
              /\ UNCHANGED <<m3u8DetectionPromises, timer, detect, settleCalls,
                             scanPc, lastDetectedUrls>>
    ELSE /\ lastDetectedUrls' = MapDelete(lastDetectedUrls, tabId)
         /\ UNCHANGED <<m3u8DetectionPromises, timer, detect, settleCalls, scanPc,
                        listenerThrew>>

\* A scanner tab is closed, by the user or by chrome.windows.remove.
TabRemoved(t) ==
    /\ ~ScanMicrotaskPending
    /\ t # UserTab
    /\ tabState[t] \in {"open", "closing"}
    /\ tabState' = [tabState EXCEPT ![t] = "closed"]
    /\ onRemoved(t)
    /\ UNCHANGED <<notified, configured, timeoutInSeconds, scannerTab,
                   originalTab, removeRequested, focusCalls, scanResult>>
    /\ UNCHANGED observedCount
    /\ UNCHANGED connVars
    /\ UNCHANGED otherVars
    /\ UNCHANGED exitVars

\* chrome.tabs.onUpdated listener with changeInfo.status = 'loading',
\* lines 1143-1150.
TabLoading(t) ==
    /\ ~ScanMicrotaskPending
    /\ tabState[t] = "open"
    /\ lastDetectedUrls' = MapDelete(lastDetectedUrls, t)
    /\ UNCHANGED <<m3u8DetectionPromises, tabState, notified, listenerThrew, scanPc,
                   configured, timeoutInSeconds, scannerTab, originalTab, timer,
                   detect, settleCalls, removeRequested, focusCalls, scanResult>>
    /\ UNCHANGED observedCount
    /\ UNCHANGED connVars
    /\ UNCHANGED otherVars
    /\ UNCHANGED exitVars

DetNext ==
    \/ \E d \in SequentialScans, orig \in {Null, UserTab} : StartScan(d, orig)
    \/ \E d \in Scans : StorageRead(d)
    \/ \E d \in Scans, ok \in BOOLEAN : WindowCreated(d, ok)
    \/ \E d \in Scans : RegisterTask(d)
    \/ \E d \in Scans : CreateFailed(d)
    \/ \E d \in Scans : TimerFire(d)
    \/ \E d \in Scans : Finally(d)
    \/ \E d \in Scans, ok \in BOOLEAN : FocusWindowDone(d, ok)
    \/ \E d \in Scans, ok \in BOOLEAN : FocusTabDone(d, ok)
    \/ \E details \in HeaderDetails : HeadersReceived(details)
    \/ \E t \in Tabs : TabRemoved(t)
    \/ \E t \in Tabs : TabLoading(t)


\* Storage as _getDefaultData returns it (lines 49-62); no exit event yet.
ExitInit ==
    /\ storedFolders = [f \in FolderIds |-> <<>>]
    /\ clear_on_completion = FALSE
    /\ exitPc = <<>>
    /\ clearData = <<>>
    /\ handleClearCalls = <<>>

\* Storage after the user added an item to the folder and chose a setting.
ExitStoredInit ==
    /\ storedFolders = [f \in FolderIds |-> <<"url">>]
    /\ clear_on_completion \in BOOLEAN
    /\ exitPc = <<>>
    /\ clearData = <<>>
    /\ handleClearCalls = <<>>
\* The manifest responses of the scanner tabs.
ManifestDetails ==
    {details \in HeaderDetails :
        /\ details.tabId # UserTab
        /\ details.url = <<"https://h", "/a", ".m3u8">>
        /\ details.responseHeaders = <<"application/vnd.apple.mpegurl">>}

\* Several scans in progress at once; each was started without a tab to
\* return to, and every scanner window opens.
ConcurrentNext ==
    \/ \E d \in Scans : StartScan(d, Null)
    \/ \E d \in Scans : StorageRead(d)
    \/ \E d \in Scans : WindowCreated(d, TRUE)
    \/ \E d \in Scans : RegisterTask(d)
    \/ \E d \in Scans : TimerFire(d)
    \/ \E d \in Scans : Finally(d)
    \/ \E details \in ManifestDetails : HeadersReceived(details)
    \/ \E t \in Tabs : TabRemoved(t)

\* ======================================================================
\* Storage handlers (runtime.onMessage actions) and the debounced sync
\* ======================================================================
\* chrome.storage serves its calls in the order they were issued: a get
\* returns the data as of its call, a set takes effect at its call; the
\* handler resumes later, and other handlers run in between.
\* Folder names are ordinary strings; "" is the missing name and " " a name
\* of blanks only.
FolderNames == {"YT", "A"}
GivenNames == FolderNames \cup {"", " "}
DetectedUrls == {"u1", "u2"}
NotAnArray == <<"not an array">>
Orders == {<<>>} \cup {<<a>> : a \in FolderNames} \cup {<<a, b>> : a, b \in FolderNames}

wait == 1000             \* debounce(syncDataToNativeHostFile, 1000)

\* clearTimeout(id)
clearTimeout(pending, id) == {x \in pending : x.id # id}

\* Bug variant: the pending timer is not cancelled by a new invocation.
executedFunction_NoClear ==
    /\ timers' = timers \cup {[id |-> invocations + 1, due |-> now + wait]}
    /\ timeout' = invocations + 1
    /\ lastInvoked' = now
    /\ invocations' = invocations + 1
    /\ UNCHANGED <<now, syncRuns>>

\* debouncedSyncToNativeHostFile(): lines 15-22, the part run by the caller.
executedFunction ==
    /\ timers' = clearTimeout(timers, timeout) \cup {[id |-> invocations + 1, due |-> now + wait]}
    /\ timeout' = invocations + 1
    /\ lastInvoked' = now
    /\ invocations' = invocations + 1
    /\ UNCHANGED <<now, syncRuns>>

DebounceInit ==
    /\ now = 0
    /\ timers = {}
    /\ timeout = Null
    /\ lastInvoked = Null
    /\ invocations = 0
    /\ syncRuns = <<>>

\* --- the handlers, from the resolution of storage.get() to their return or
\* their call of storage.set(data).  data is [folders, folderOrder]; the
\* result says whether storage.set was called, with what, and the response.
Returned(data, r) == [set |-> FALSE, data |-> data, response |-> r]
Stored(data, r) == [set |-> TRUE, data |-> data, response |-> r]
Success == "success"

\* lines 527-533
handleCreateFolder(request, data) ==
    IF request.folderId \in DOMAIN data.folders
    THEN Returned(data, "A folder with that name already exists.")
    ELSE Stored([folders |-> MapPut(data.folders, request.folderId, <<>>),
                 folderOrder |-> Append(data.folderOrder, request.folderId)], Success)

\* data.folderOrder.filter(id => id !== folderIdToRemove)
RECURSIVE Without(_, _)
Without(order, id) ==
    IF order = <<>> THEN <<>>
    ELSE IF Head(order) = id THEN Without(Tail(order), id)
         ELSE <<Head(order)>> \o Without(Tail(order), id)

\* lines 551-565
handleRemoveFolder(request, data) ==
    IF Len(data.folderOrder) <= 1 /\ request.folderId \in DOMAIN data.folders
    THEN Returned(data, "Cannot remove the last folder.")
    ELSE IF request.folderId \notin DOMAIN data.folders
    THEN Returned(data, "Folder not found.")
    ELSE Stored([folders |-> MapDelete(data.folders, request.folderId),
                 folderOrder |-> Without(data.folderOrder, request.folderId)], Success)

\* data.folderOrder.indexOf(oldFolderId), 1-based; 0 when absent
IndexOf(order, id) ==
    IF \E i \in DOMAIN order : order[i] = id
    THEN CHOOSE i \in DOMAIN order : order[i] = id /\ \A j \in 1..(i - 1) : order[j] # id
    ELSE 0

\* lines 578-596
handleRenameFolder(request, data) ==
    IF request.oldFolderId \notin DOMAIN data.folders
    THEN Returned(data, "Folder not found.")
    ELSE IF request.newFolderId \in DOMAIN data.folders
    THEN Returned(data, "A folder with that name already exists.")
    ELSE LET index == IndexOf(data.folderOrder, request.oldFolderId) IN
         Stored([folders |-> MapPut(MapDelete(data.folders, request.oldFolderId),
                                    request.newFolderId, data.folders[request.oldFolderId]),
                 folderOrder |-> IF index # 0
                                 THEN [data.folderOrder EXCEPT ![index] = request.newFolderId]
                                 ELSE data.folderOrder], Success)

\* lines 608-616: the new order is compared to the folder keys as a Set.
handleSetFolderOrder(request, data) ==
    LET currentKeys == DOMAIN data.folders
        newKeys == {request.order[i] : i \in DOMAIN request.order} IN
    IF Cardinality(currentKeys) # Cardinality(newKeys) \/ ~(currentKeys \subseteq newKeys)
    THEN Returned(data, "New order does not match existing folders.")
    ELSE Stored([folders |-> data.folders, folderOrder |-> request.order], Success)

\* `${baseFolderName} (${counter})`
Numbered(base, counter) ==
    CASE counter = 1 -> "A (1)"
      [] counter = 2 -> "A (2)"
      [] counter = 3 -> "A (3)"
      [] OTHER -> "A (4)"
\* lines 663-668
RECURSIVE FreeName(_, _, _)
FreeName(folders, base, counter) ==
    IF counter = 0
    THEN IF base \in DOMAIN folders THEN FreeName(folders, base, 1) ELSE base
    ELSE IF Numbered(base, counter) \in DOMAIN folders
         THEN FreeName(folders, base, counter + 1)
         ELSE Numbered(base, counter)

\* lines 662-673
handleImportFromFile(request, data) ==
    LET newFolderId == FreeName(data.folders, request.baseFolderName, 0) IN
    Stored([folders |-> MapPut(data.folders, newFolderId, request.combinedPlaylist),
            folderOrder |-> Append(data.folderOrder, newFolderId)], Success)

Threw == "TypeError"

\* handleAdd lines 738-740, addUrlToFolder lines 942-944; reading .playlist
\* of a missing folder throws.
handleAdd(request, data) ==
    IF request.folderId \notin DOMAIN data.folders
    THEN Returned(data, Threw)
    ELSE Stored([data EXCEPT !.folders[request.folderId] = Append(@, request.detectedUrl)],
                Success)

\* lines 753-755
handleClear(request, data) ==
    IF request.folderId \notin DOMAIN data.folders
    THEN Returned(data, Threw)
    ELSE Stored([data EXCEPT !.folders[request.folderId] = <<>>], Success)

\* playlist.splice(indexToRemove, 1), with the 0-based index of the request
Splice(playlist, index) ==
    SubSeq(playlist, 1, index) \o SubSeq(playlist, index + 2, Len(playlist))

\* lines 762-772
handleRemoveItem(request, data) ==
    IF request.folderId \notin DOMAIN data.folders
    THEN Returned(data, Threw)
    ELSE IF request.index >= 0 /\ request.index < Len(data.folders[request.folderId])
    THEN Stored([data EXCEPT !.folders[request.folderId] = Splice(@, request.index)],
                Success)
    ELSE Returned(data, "Invalid item index.")

\* actionHandlers, lines 785-824 (and addUrlToFolder, called by the context
\* menu listener)
Handle(request, data) ==
    CASE request.action = "create_folder" -> handleCreateFolder(request, data)
      [] request.action = "remove_folder" -> handleRemoveFolder(request, data)
      [] request.action = "rename_folder" -> handleRenameFolder(request, data)
      [] request.action = "set_folder_order" -> handleSetFolderOrder(request, data)
      [] request.action = "import_from_file" -> handleImportFromFile(request, data)
      [] request.action \in {"add", "addUrlToFolder"} -> handleAdd(request, data)
      [] request.action = "clear" -> handleClear(request, data)
      [] request.action = "remove_item" -> handleRemoveItem(request, data)

\* The checks a handler makes before its first await: the error it returns,
\* or "ok".
Validate(request) ==
    CASE request.action = "create_folder" ->
             IF request.folderId \in {"", " "} THEN "Folder name cannot be empty." ELSE "ok"
      [] request.action = "remove_folder" ->
             IF request.folderId = "" THEN "Invalid folder ID provided." ELSE "ok"
      [] request.action = "rename_folder" ->
             IF request.oldFolderId = "" \/ request.newFolderId \in {"", " "}
             THEN "Invalid folder names provided." ELSE "ok"
      [] request.action = "set_folder_order" ->
             IF request.order = NotAnArray THEN "Invalid order data provided." ELSE "ok"
      [] request.action = "import_from_file" ->
             IF request.filename = "" THEN "No filename provided." ELSE "ok"
      [] request.action = "add" ->
             IF request.detectedUrl = "" THEN "No URL detected on the page to add." ELSE "ok"
      [] OTHER -> "ok"

FolderRequests ==
    {[action |-> "create_folder", folderId |-> f] : f \in GivenNames}
    \cup {[action |-> "remove_folder", folderId |-> f] : f \in GivenNames}
    \cup {[action |-> "rename_folder", oldFolderId |-> f, newFolderId |-> g] :
             f \in FolderNames \cup {""}, g \in GivenNames}
    \cup {[action |-> "set_folder_order", order |-> o] : o \in Orders \cup {NotAnArray}}
    \cup {[action |-> "import_from_file", filename |-> n, baseFolderName |-> "A",
           combinedPlaylist |-> <<"u1">>] : n \in {"", "A.json"}}

PlaylistRequests ==
    {[action |-> a, folderId |-> "YT", detectedUrl |-> u] :
        a \in {"add", "addUrlToFolder"}, u \in DetectedUrls}
    \cup {[action |-> "add", folderId |-> "YT", detectedUrl |-> ""]}
    \cup {[action |-> "clear", folderId |-> "YT"]}
    \cup {[action |-> "remove_item", folderId |-> "YT", index |-> i] : i \in {0, 1}}

HandlersInit ==
    /\ folderOrder = <<"YT">>
    /\ requests = <<>>
    /\ handlerPc = <<>>
    /\ handlerData = <<>>
    /\ handlerResponse = <<>>

NoData == [folders |-> EmptyMap, folderOrder |-> <<>>]
StoredData == [folders |-> storedFolders, folderOrder |-> folderOrder]

\* The listener of line 826 (or the context menu listener) calls the
\* handler, which runs to its first await: storage.get(), or callNativeHost
\* for an import.
RequestReceived(request) ==
    /\ Len(requests) < MaxRequests
    /\ requests' = Append(requests, request)
    /\ IF Validate(request) # "ok"
       THEN /\ handlerPc' = Append(handlerPc, "done")
            /\ handlerData' = Append(handlerData, NoData)
            /\ handlerResponse' = Append(handlerResponse, Validate(request))
       ELSE /\ handlerPc' = Append(handlerPc, IF request.action = "import_from_file"
                                               THEN "native" ELSE "get")
            /\ handlerData' = Append(handlerData, StoredData)
            /\ handlerResponse' = Append(handlerResponse, "none")
    /\ UNCHANGED <<folderOrder, storedFolders>>
    /\ UNCHANGED <<clear_on_completion, exitPc, clearData, handleClearCalls>>
    /\ UNCHANGED <<obsVars, debounceVars>>
    /\ UNCHANGED connVars
    /\ UNCHANGED detVars

ImportOutcomes == {"host failed", "parse failed", "no urls", "urls"}

\* handleImportFromFile lines 627-662: the native host has answered.  The
\* handler returns the host's error, the parse error or the 'empty' message,
\* or goes on to storage.get().
ImportAnswered(i, outcome) ==
    /\ i \in DOMAIN handlerPc /\ handlerPc[i] = "native"
    /\ IF outcome = "urls"
       THEN /\ handlerPc' = [handlerPc EXCEPT ![i] = "get"]
            /\ handlerData' = [handlerData EXCEPT ![i] = StoredData]
            /\ UNCHANGED handlerResponse
       ELSE /\ handlerPc' = [handlerPc EXCEPT ![i] = "done"]
            /\ handlerResponse' = [handlerResponse EXCEPT ![i] =
                                      IF outcome = "no urls" THEN Success ELSE outcome]
            /\ UNCHANGED handlerData
    /\ UNCHANGED <<folderOrder, requests, storedFolders>>
    /\ UNCHANGED <<clear_on_completion, exitPc, clearData, handleClearCalls>>
    /\ UNCHANGED <<obsVars, debounceVars>>
    /\ UNCHANGED connVars
    /\ UNCHANGED detVars

\* storage.get() has resolved with the data as of the call; the handler
\* changes its copy and calls storage.set(data), or returns an error.
StorageGot(i) ==
    /\ i \in DOMAIN handlerPc /\ handlerPc[i] = "get"
    /\ LET h == Handle(requests[i], handlerData[i]) IN
       /\ handlerData' = [handlerData EXCEPT ![i] = h.data]
       /\ IF h.set
          THEN /\ storedFolders' = h.data.folders
               /\ folderOrder' = h.data.folderOrder
               /\ handlerPc' = [handlerPc EXCEPT ![i] = "set"]
               /\ UNCHANGED handlerResponse
          ELSE /\ handlerPc' = [handlerPc EXCEPT ![i] = "done"]
               /\ handlerResponse' = [handlerResponse EXCEPT ![i] = h.response]
               /\ UNCHANGED <<storedFolders, folderOrder>>
    /\ UNCHANGED requests
    /\ UNCHANGED <<clear_on_completion, exitPc, clearData, handleClearCalls>>
    /\ UNCHANGED <<obsVars, debounceVars>>
    /\ UNCHANGED connVars
    /\ UNCHANGED detVars

\* storage.set(data) has resolved: the handler notifies the tabs, calls
\* debouncedSyncToNativeHostFile() and returns its success response.
StorageSet(i) ==
    /\ i \in DOMAIN handlerPc /\ handlerPc[i] = "set"
    /\ handlerPc' = [handlerPc EXCEPT ![i] = "done"]
    /\ handlerResponse' = [handlerResponse EXCEPT ![i] = Success]
    /\ executedFunction
    /\ UNCHANGED <<folderOrder, requests, handlerData, storedFolders>>
    /\ UNCHANGED <<clear_on_completion, exitPc, clearData, handleClearCalls>>
    /\ UNCHANGED obsVars
    /\ UNCHANGED connVars
    /\ UNCHANGED detVars

\* --- the debounced sync on its own
\* Some handler calls debouncedSyncToNativeHostFile().
InvokeDebounced ==
    /\ invocations < MaxInvocations
    /\ executedFunction
    /\ UNCHANGED <<obsVars, handlerVars>>
    /\ UNCHANGED connVars
    /\ UNCHANGED detVars
    /\ UNCHANGED exitVars

\* `later`, lines 16-19: a timer is due; syncDataToNativeHostFile is run.
TimerDue(x) ==
    /\ x \in timers /\ x.due = now
    /\ timers' = clearTimeout(timers \ {x}, timeout)
    /\ syncRuns' = Append(syncRuns, now)
    /\ UNCHANGED <<now, timeout, lastInvoked, invocations>>
    /\ UNCHANGED <<obsVars, handlerVars>>
    /\ UNCHANGED connVars
    /\ UNCHANGED detVars
    /\ UNCHANGED exitVars

\* Half a second passes; a timer that is due runs first.
Tick ==
    /\ now < MaxTicks * 500
    /\ \A x \in timers : x.due > now
    /\ now' = now + 500
    /\ UNCHANGED <<timers, timeout, lastInvoked, invocations, syncRuns>>
    /\ UNCHANGED <<obsVars, handlerVars>>
    /\ UNCHANGED connVars
    /\ UNCHANGED detVars
    /\ UNCHANGED exitVars

OtherInit == ObsInit /\ HandlersInit /\ DebounceInit

FolderNext ==
    \/ \E request \in FolderRequests : RequestReceived(request)
    \/ \E i \in 1..MaxRequests, outcome \in ImportOutcomes : ImportAnswered(i, outcome)
    \/ \E i \in 1..MaxRequests : StorageGot(i)
    \/ \E i \in 1..MaxRequests : StorageSet(i)

PlaylistNext ==
    \/ \E request \in PlaylistRequests : RequestReceived(request)
    \/ \E i \in 1..MaxRequests : StorageGot(i)
    \/ \E i \in 1..MaxRequests : StorageSet(i)

DebounceNext ==
    \/ InvokeDebounced
    \/ \E x \in timers : TimerDue(x)
    \/ Tick

\* The responses for one manifest, in any tab.
RepeatedManifest ==
    {details \in HeaderDetails :
        /\ details.url = <<"https://h", "/a", ".m3u8">>
        /\ details.responseHeaders = <<"application/vnd.apple.mpegurl">>}

\* Tabs that navigate and close while one manifest is requested repeatedly.
NavigationNext ==
    \/ \E d \in SequentialScans : StartScan(d, Null)
    \/ \E d \in Scans : StorageRead(d)
    \/ \E d \in Scans : WindowCreated(d, TRUE)
    \/ \E d \in Scans : RegisterTask(d)
    \/ \E d \in Scans : TimerFire(d)
    \/ \E d \in Scans : Finally(d)
    \/ \E details \in RepeatedManifest : HeadersReceived(details)
    \/ \E t \in Tabs : TabRemoved(t)
    \/ \E t \in Tabs : TabLoading(t)

\* The observer called with arbitrary responses while a scan runs.
ObserverNext ==
    \/ \E d \in SequentialScans : StartScan(d, Null)
    \/ \E d \in Scans : StorageRead(d)
    \/ \E d \in Scans : WindowCreated(d, TRUE)
    \/ \E d \in Scans : RegisterTask(d)
    \/ \E d \in Scans : Finally(d)
    \/ \E details \in AllDetails : Observe(details)

Init == ConnInit /\ ScannerInit /\ configured = 0 /\ ExitInit /\ OtherInit
Next == ConnNext
Spec == Init /\ [][Next]_vars

DetectInit == ConnInit /\ DetInit /\ ExitInit /\ OtherInit
DetectSpec == DetectInit /\ [][DetNext]_vars

ConcurrentSpec == Init /\ [][ConcurrentNext]_vars

NavigationSpec == Init /\ [][NavigationNext]_vars

ObserverSpec == Init /\ [][ObserverNext]_vars

FolderSpec == Init /\ [][FolderNext]_vars

PlaylistSpec == Init /\ [][PlaylistNext]_vars

DebounceSpec == Init /\ [][DebounceNext]_vars

\* --- the connection manager with the scheduling of the event loop and a
\* channel that answers.
\* What the host sends in answer to requests, and messages without an id.
AnswerMessages ==
    {m \in InboundMessages :
        /\ m.request_id \in RequestIds \cup {NoId}
        /\ m.action = "none" /\ m.success}

LiveNext ==
    \/ \E c \in Calls, opens \in BOOLEAN : CallNativeHost(c, opens)
    \/ \E c \in Calls : ResumeAfterConnect(c)
    \/ \E c \in Calls : Complete(c)
    \/ \E p \in DOMAIN ports, m \in AnswerMessages : Deliver(p, m)
    \/ \E p \in DOMAIN ports : Disconnect(p, "Native host disconnected.")
    \/ \E p \in DOMAIN ports : BreakPort(p)

\* The channel answers the request of call c: the host's response with the
\* id of that request is delivered, or the disconnect of the port is.
ChannelAnswers(c) ==
    /\ pc[c] = "pending"
    /\ \/ \E p \in DOMAIN ports, m \in AnswerMessages :
              m.request_id = sentId[c] /\ Deliver(p, m)
       \/ \E p \in DOMAIN ports : Disconnect(p, "Native host disconnected.")

\* Queued promise continuations always run (the event loop drains the
\* microtask queue), and the channel answers every request posted on it.
LiveFairness ==
    /\ \A c \in Calls : WF_vars(ResumeAfterConnect(c))
    /\ \A c \in Calls : WF_vars(Complete(c))
    /\ \A c \in Calls : WF_vars(ChannelAnswers(c))

LiveSpec == Init /\ [][LiveNext]_vars /\ LiveFairness

ExitSpecInit == ConnInit /\ ScannerInit /\ configured = 0 /\ ExitStoredInit /\ OtherInit
ExitSpec == ExitSpecInit /\ [][ExitNext]_vars

\* ======================================================================
\* Properties of the connection manager (checked under Spec)
\* ======================================================================

\* A step in which the onMessage listener ran.
DeliverStep == inboundCount' = inboundCount + 1
\* A step in which the onDisconnect listener of port p ran.
DisconnectStep == \E p \in DOMAIN ports : ports[p] \in {"open", "broken"} /\ ports'[p] = "closed"

\* C1 (id isolation): the promise of a call is resolved only by the listener
\* receiving a message whose request_id is the id injected into that call's
\* own outbound message, and with that message's payload (request_id
\* removed); a settled call is never settled again, so a repeated message for
\* an answered id settles nothing; the call completes with that payload.
C1_IdIsolationStep ==
    \A c \in Calls :
        /\ (outer[c].kind = "none" /\ outer'[c].kind = "resolved") =>
              /\ DeliverStep
              /\ sentId[c] # NoId
              /\ lastInbound'.request_id = sentId[c]
              /\ outer'[c].val = ResponseData(lastInbound')
              /\ \A b \in Calls \ {c} : outer'[b] = outer[b]
        /\ outer[c].kind # "none" => outer'[c] = outer[c]
        /\ (DeliverStep /\ lastInbound'.request_id \notin DOMAIN requestPromises) =>
              outer' = outer /\ requestPromises' = requestPromises
        /\ (pc'[c] = "done" /\ outer'[c].kind = "resolved") =>
              result'[c] = [kind |-> "fulfilled", val |-> outer'[c].val]
C1_IdIsolation == [][C1_IdIsolationStep]_vars

\* Two calls in flight, the later one answered first and completed, and then
\* a second message with the answered id arrives while the other is pending.
C1_Witness ==
    /\ pc[1] = "pending" /\ pc[2] = "done"
    /\ sentId[1] = ReqId(0) /\ sentId[2] = ReqId(1)
    /\ result[2].val = [action |-> "none", success |-> TRUE, text |-> "a"]
    /\ lastInbound.request_id = ReqId(1)
    /\ lastInbound.success = FALSE
    /\ inboundCount = 2

\* C2 (disconnect with K pending): the disconnect handler rejects every
\* pending request with a "Native host disconnected" error and leaves
\* requestPromises empty, nativePort null and connectionStatus DISCONNECTED;
\* each of those calls completes with success = false.
C2_DisconnectStep ==
    /\ DisconnectStep =>
          /\ \A id \in DOMAIN requestPromises :
                /\ outer[requestPromises[id]].kind = "none"
                /\ outer'[requestPromises[id]].kind = "rejected"
                /\ outer'[requestPromises[id]].val[1] = "Native host disconnected: "
          /\ requestPromises' = EmptyMap
          /\ nativePort' = Null
          /\ connectionStatus' = "DISCONNECTED"
    /\ \A c \in Calls :
          (pc'[c] = "done" /\ outer'[c].kind = "rejected") =>
              /\ result'[c].kind = "fulfilled"
              /\ result'[c].val.success = FALSE
              /\ result'[c].val.error =
                    <<"Could not communicate with native host. Error: ">> \o outer'[c].val
C2_DisconnectFailsAllPending == [][C2_DisconnectStep]_vars

\* Right after a disconnect that found K = 2 requests pending.
C2_Witness ==
    /\ \A c \in {1, 2} : /\ pc[c] = "settled"
                         /\ outer[c] = Rejected(DisconnectedError("lastError"))
                         /\ sentId[c] # NoId
    /\ Len(posted) = 2
    /\ requestPromises = EmptyMap
    /\ connectionStatus = "DISCONNECTED"

\* C3 (no duplicate channel opens): at most one opened channel is live;
\* connectNative is called only in status DISCONNECTED, once per step, so
\* between two disconnect events it is called at most once and the number
\* of opens never exceeds the number of processed disconnects plus one; any
\* call that was issued found or made exactly that one open.
C3_OneChannel ==
    /\ Cardinality(LivePorts) <= 1
    /\ Len(ports) <= Cardinality({p \in DOMAIN ports : ports[p] = "closed"}) + 1
    /\ (\E c \in Calls : pc[c] # "idle") => Len(ports) >= 1
C3_OpenStep ==
    ports' # ports /\ Len(ports') # Len(ports) =>
        /\ connectionStatus = "DISCONNECTED"
        /\ Len(ports') = Len(ports) + 1
C3_NoDuplicateChannel == [](C3_OneChannel) /\ [][C3_OpenStep]_vars

\* Two calls in flight on the single channel that the first one opened.
C3_Witness ==
    /\ pc[1] = "pending" /\ pc[2] = "pending"
    /\ Len(ports) = 1 /\ ports[1] = "open"
    /\ connectionStatus = "CONNECTED"

\* C4 (never rejects): a completed call has a fulfilled promise; when the
\* inner promise was rejected (connection failed, send failed, disconnect)
\* the value is exactly {success: false, error: <string>}; otherwise it is a
\* response payload of the call's own request id with request_id removed.
C4_NeverRejects ==
    \A c \in Calls :
        pc[c] = "done" =>
            /\ result[c].kind = "fulfilled"
            /\ outer[c].kind \in {"resolved", "rejected"}
            /\ outer[c].kind = "rejected" =>
                  /\ DOMAIN result[c].val = {"success", "error"}
                  /\ result[c].val.success = FALSE
                  /\ Len(result[c].val.error) >= 2
                  /\ outer[c].val \in {ConnectError, SendError} \cup
                        {DisconnectedError(e) : e \in DisconnectErrors}
            /\ outer[c].kind = "resolved" =>
                  /\ "request_id" \notin DOMAIN result[c].val
                  /\ \E m \in InboundMessages :
                        m.request_id = sentId[c] /\ result[c].val = ResponseData(m)

\* One call completed after a send failure, another after a disconnect.
C4_Witness ==
    /\ pc[1] = "done" /\ outer[1] = Rejected(SendError)
    /\ pc[2] = "done" /\ outer[2] = Rejected(DisconnectedError("Native host disconnected."))
    /\ result[1].val.success = FALSE /\ result[2].val.success = FALSE

\* A call completed after connectNative threw.
C4_WitnessConnectFailure ==
    /\ pc[1] = "done" /\ outer[1] = Rejected(ConnectError)
    /\ result[1].val.success = FALSE

\* C5 (reconnect on demand): once the disconnect of the latest channel has
\* been processed the status is DISCONNECTED; the next callNativeHost then
\* calls connectNative again and, when that returns a port, sets CONNECTED
\* and makes the new port the current handle; when the call resumes it posts
\* its message on that new port (unless postMessage throws); no message is
\* ever posted twice, so requests failed by the disconnect are not re-sent.
AfterDisconnect == Len(ports) > 0 /\ ports[Len(ports)] = "closed"
C5_State ==
    /\ AfterDisconnect => connectionStatus = "DISCONNECTED" /\ nativePort = Null
    /\ \A i, j \in DOMAIN posted : i # j => posted[i].message # posted[j].message
    /\ \A c \in Calls :
          (pc[c] = "awaitConn" /\ awaited[c] = "resolved") =>
              /\ connectionStatus = "CONNECTED"
              /\ nativePort = Len(ports)
C5_ReconnectStep ==
    /\ \A c \in Calls :
          /\ (pc[c] = "idle" /\ pc'[c] # "idle" /\ AfterDisconnect) =>
                /\ Len(ports') = Len(ports) + 1
                /\ pc'[c] = "awaitConn"
                /\ posted' = posted
                /\ ports'[Len(ports')] = "open" =>
                      /\ connectionStatus' = "CONNECTED"
                      /\ nativePort' = Len(ports')
                      /\ awaited'[c] = "resolved"
          /\ (pc[c] = "awaitConn" /\ awaited[c] = "resolved" /\ pc'[c] # "awaitConn"
                /\ ports[Len(ports)] = "open") =>
                /\ pc'[c] = "pending"
                /\ posted' = Append(posted, [port |-> Len(ports),
                                             request_id |-> sentId'[c],
                                             message |-> c])
    /\ Len(posted') >= Len(posted)
    /\ \A i \in DOMAIN posted : posted'[i] = posted[i]
C5_ReconnectOnDemand == [](C5_State) /\ [][C5_ReconnectStep]_vars

\* Call 1 was failed by the disconnect of port 1; call 2, issued afterwards,
\* opened port 2 and its message is the only one posted there.
C5_Witness ==
    /\ Len(ports) = 2 /\ ports[1] = "closed" /\ ports[2] = "open"
    /\ outer[1].kind = "rejected" /\ outer[1].val[1] = "Native host disconnected: "
    /\ pc[2] = "pending"
    /\ connectionStatus = "CONNECTED" /\ nativePort = 2
    /\ Len(posted) = 2 /\ posted[1].port = 1 /\ posted[2].port = 2 /\ posted[2].message = 2

\* ======================================================================
\* Properties of the stream scanner (checked under DetectSpec)
\* ======================================================================

\* The value stored under key t in map m, as a set.
CachedFor(m, t) == IF t \in DOMAIN m THEN {m[t]} ELSE {}
\* The scan whose task is registered for tab t, as a set.
TaskOn(t) == IF t \in DOMAIN m3u8DetectionPromises THEN {m3u8DetectionPromises[t]} ELSE {}
\* The observer passed the duplicate check for tab t in this step (line 1097).
ReportedOn(t) ==
    /\ observedCount' = observedCount + 1
    /\ t \in DOMAIN lastDetectedUrls'
    /\ (t \notin DOMAIN lastDetectedUrls \/ lastDetectedUrls[t] # lastDetectedUrls'[t])
\* The onRemoved listener ran for tab t in this step.
RemovedStep(t) == tabState[t] # "closed" /\ tabState'[t] = "closed"
\* The deadline timer of scan d fired in this step.
TimerStep(d) == timer[d] = "armed" /\ timer'[d] = "fired"
IsTimeout(p) == p.kind = "rejected" /\ p.val[1] = "M3U8 detection timed out after "

\* C6 (detection success): when the observer reports a match (one that
\* passes its duplicate check) for a tab whose Detection Task is registered,
\* the detect promise is resolved with exactly that URL and the timer is
\* cancelled; from then on the outcome and the cancelled timer never change
\* (no timeout rejection is delivered) and findM3u8InUrl resolves with the URL.
C6_MatchStep ==
    \A d \in Scans :
        /\ \A t \in Tabs :
              (d \in TaskOn(t) /\ ReportedOn(t)) =>
                  /\ detect[d].kind = "none"
                  /\ detect'[d] = Resolved(lastDetectedUrls'[t])
                  /\ timer[d] = "armed" /\ timer'[d] = "cleared"
                  /\ t \notin DOMAIN m3u8DetectionPromises'
        /\ detect[d].kind = "resolved" =>
              /\ detect'[d] = detect[d]
              /\ timer'[d] = "cleared"
              /\ settleCalls'[d] = 1
        /\ (scanPc'[d] = "done" /\ detect'[d].kind = "resolved") =>
              scanResult'[d] = detect'[d]
C6_DetectionSuccess == [][C6_MatchStep]_vars

\* A scan that ended with the URL matched while its task was registered.
C6_Witness ==
    /\ scanPc[1] = "done"
    /\ scanResult[1] = Resolved(<<"https://h", "/a", ".m3u8">>)
    /\ timer[1] = "cleared"
    /\ tabState[scannerTab[1]] = "closed"

\* C7 (detection timeout): when the timer fires with no match reported and
\* the tab not closed, the detect promise is rejected with 'timed out after N
\* seconds' where N is timeoutInSeconds (the configured value, 60 when the
\* setting is unset), the task entry is removed, and findM3u8InUrl rejects
\* with that error.
C7_TimeoutStep ==
    \A d \in Scans :
        /\ (TimerStep(d) /\ detect[d].kind = "none") =>
              /\ detect'[d] = Rejected(<<"M3U8 detection timed out after ",
                                         timeoutInSeconds[d], " seconds.">>)
              /\ timeoutInSeconds[d] = (IF configured # 0 THEN configured ELSE 60)
              /\ scannerTab[d] \notin DOMAIN m3u8DetectionPromises'
              /\ d \notin {m3u8DetectionPromises'[t] : t \in DOMAIN m3u8DetectionPromises'}
        /\ (scanPc'[d] = "done" /\ IsTimeout(detect'[d])) =>
              /\ scanResult'[d] = Rejected(<<"M3U8 detection timed out after ",
                                             timeoutInSeconds[d], " seconds.">>)
              /\ scannerTab[d] \notin DOMAIN m3u8DetectionPromises'
C7_DetectionTimeout == [][C7_TimeoutStep]_vars

\* A scan configured with 3 seconds ended with the 3-second timeout error.
C7_Witness ==
    /\ configured = 3
    /\ scanPc[1] = "done"
    /\ scanResult[1] = Rejected(<<"M3U8 detection timed out after ", 3, " seconds.">>)
    /\ timer[1] = "fired"

\* C8 (detection interrupted): when the scanner tab is closed while its
\* task is registered, the detect promise is rejected with the 'closed before
\* detection' error and the timer is cancelled; the outcome never becomes the
\* timeout error and findM3u8InUrl rejects with the closed error.
C8_ClosedStep ==
    \A d \in Scans :
        /\ \A t \in Tabs :
              (d \in TaskOn(t) /\ RemovedStep(t)) =>
                  /\ detect[d].kind = "none"
                  /\ detect'[d] = Rejected(ClosedError)
                  /\ timer[d] = "armed" /\ timer'[d] = "cleared"
                  /\ t \notin DOMAIN m3u8DetectionPromises'
        /\ detect[d] = Rejected(ClosedError) =>
              /\ detect'[d] = detect[d]
              /\ timer'[d] = "cleared"
        /\ (scanPc'[d] = "done" /\ detect'[d] = Rejected(ClosedError)) =>
              scanResult'[d] = Rejected(ClosedError)
C8_DetectionInterrupted == [][C8_ClosedStep]_vars

\* A scan ended with the closed error after its tab was closed while waiting.
C8_Witness ==
    /\ scanPc[1] = "done"
    /\ scanResult[1] = Rejected(ClosedError)
    /\ timer[1] = "cleared"
    /\ removeRequested[1]

\* C9 (mutually exclusive outcomes): resolve / reject of a detect promise
\* run at most once; once it is settled no task entry is left for the scan,
\* so a later match, timer or close finds none; no listener throws.
C9_ExclusiveOutcomes ==
    /\ ~listenerThrew
    /\ \A d \in Scans :
          /\ settleCalls[d] <= 1
          /\ detect[d].kind # "none" =>
                /\ \A t \in DOMAIN m3u8DetectionPromises : m3u8DetectionPromises[t] # d
                /\ timer[d] # "armed"
                /\ (scannerTab[d] # Null => settleCalls[d] = 1)

\* The timer settled the scan first; afterwards a match was observed in the
\* same tab and the tab was closed.
C9_Witness ==
    /\ IsTimeout(detect[1])
    /\ settleCalls[1] = 1
    /\ notified.count = 1 /\ notified.last[1] = scannerTab[1]
    /\ tabState[scannerTab[1]] = "closed"
    /\ scanPc[1] = "done" /\ IsTimeout(scanResult[1])

CleanupOutcomes == {ClosedError} \cup {TimeoutError(TimeoutFor(c)) : c \in ConfiguredTimeouts}

\* C10 (cleanup): when findM3u8InUrl has settled after a match, a timeout or
\* a close, no task entry is left for the scan, chrome.windows.remove was
\* called for the scanner window, _focusOriginalTab ran (both update calls
\* were made when an original tab was given), and the result is the outcome
\* of the detection whether or not the cleanup calls failed.
C10_Cleanup ==
    \A d \in Scans :
        (scanPc[d] = "done" /\ scannerTab[d] # Null) =>
            /\ detect[d].kind = "resolved" \/ detect[d].val \in CleanupOutcomes
            /\ scanResult[d] = detect[d]
            /\ \A t \in DOMAIN m3u8DetectionPromises : m3u8DetectionPromises[t] # d
            /\ scannerTab[d] \notin DOMAIN m3u8DetectionPromises
            /\ removeRequested[d]
            /\ tabState[scannerTab[d]] \in {"closing", "closed"}
            /\ focusCalls[d] = (IF originalTab[d] = Null THEN <<>>
                                ELSE <<"windows.update", "tabs.update">>)

\* A scan with an original tab ended with a matched URL; the scanner window
\* close was requested and both focus calls were made.
C10_Witness ==
    /\ scanPc[1] = "done"
    /\ originalTab[1] = UserTab
    /\ scanResult[1].kind = "resolved"
    /\ removeRequested[1]
    /\ focusCalls[1] = <<"windows.update", "tabs.update">>

\* The observer is given a signature match whose URL differs from the one
\* cached for its tab.
NonDuplicateMatch(details) ==
    /\ IsSignatureMatch(details)
    /\ ~(details.tabId \in DOMAIN lastDetectedUrls
           /\ lastDetectedUrls[details.tabId] = details.url)
\* The observer is given a signature match equal to the cached URL of its tab.
DuplicateMatch(details) ==
    /\ IsSignatureMatch(details)
    /\ details.tabId \in DOMAIN lastDetectedUrls
    /\ lastDetectedUrls[details.tabId] = details.url

\* C11 (observer routing): for every non-duplicate signature match on tab T,
\* if a Detection Task is registered for T the task is resolved with the URL
\* and no {m3u8: url} notification is sent; if none is registered, one
\* notification <<T, url>> is sent and no task is resolved or removed.
C11_RoutingStep ==
    \A details \in HeaderDetails :
        (HeadersReceived(details) /\ NonDuplicateMatch(details)) =>
            IF details.tabId \in DOMAIN m3u8DetectionPromises
            THEN /\ detect[m3u8DetectionPromises[details.tabId]] = Unsettled
                 /\ detect'[m3u8DetectionPromises[details.tabId]] = Resolved(details.url)
                 /\ notified' = notified
            ELSE /\ notified'.count = notified.count + 1
                 /\ notified'.last = <<details.tabId, details.url>>
                 /\ detect' = detect
                 /\ settleCalls' = settleCalls
                 /\ m3u8DetectionPromises' = m3u8DetectionPromises
C11_ObserverRouting == [][C11_RoutingStep]_vars

\* Both routes were taken: one match notified the user's tab, another
\* resolved the task of scan 1.
C11_Witness ==
    /\ observedCount = 2
    /\ notified.count = 1 /\ notified.last[1] = UserTab
    /\ detect[1].kind = "resolved"
    /\ settleCalls[1] = 1

\* C12 (observer deduplication): a non-duplicate match caches its URL for
\* the tab; the cache of a tab changes only by a match on that tab, by its
\* navigation or by its close; and a match equal to the cached URL changes
\* no state of the scanner and sends nothing.
C12_DedupStep ==
    /\ \A details \in HeaderDetails :
          /\ (HeadersReceived(details) /\ NonDuplicateMatch(details)) =>
                /\ details.tabId \in DOMAIN lastDetectedUrls'
                /\ lastDetectedUrls'[details.tabId] = details.url
          /\ (HeadersReceived(details) /\ DuplicateMatch(details)) =>
                UNCHANGED <<lastDetectedUrls, m3u8DetectionPromises, tabState, notified,
                            listenerThrew, scanPc, timer, detect, settleCalls,
                            removeRequested, focusCalls, scanResult>>
    /\ \A t \in Tabs :
          CachedFor(lastDetectedUrls', t) # CachedFor(lastDetectedUrls, t) =>
              ReportedOn(t) \/ RemovedStep(t) \/ TabLoading(t)
C12_ObserverDedup == [][C12_DedupStep]_vars

\* Two matches were seen in the user's tab with no scan running, and only
\* one notification was sent: the second match was the cached URL.
C12_Witness ==
    /\ observedCount = 2
    /\ notified.count = 1 /\ notified.last[1] = UserTab
    /\ scanPc[1] = "idle"
    /\ UserTab \in DOMAIN lastDetectedUrls

\* C27 (no match lost to the registration race): every signature match the
\* observer is given for a tab whose Detection Task is registered resolves
\* that task with the URL, also when the same URL was already observed in
\* the tab between the creation of the window and the registration.  (Fails:
\* the earlier observation cached the URL, so the repeat returns at line 1095
\* and the task is left to time out.)
C27_RaceStep ==
    \A details \in HeaderDetails :
        \A d \in Scans :
            (/\ HeadersReceived(details)
             /\ IsSignatureMatch(details)
             /\ d \in TaskOn(details.tabId)) =>
                /\ detect'[d] = Resolved(details.url)
                /\ details.tabId \notin DOMAIN m3u8DetectionPromises'
C27_NoLostMatch == [][C27_RaceStep]_vars

\* The manifest was observed in the scanner tab twice, only the first
\* observation was reported (to the tab, no task being registered yet), and
\* the scan ended with the timeout error.
C27_Witness ==
    /\ scanPc[1] = "done" /\ IsTimeout(scanResult[1])
    /\ observedCount = 2
    /\ notified.count = 1 /\ notified.last[1] = scannerTab[1]
    /\ settleCalls[1] = 1

\* ======================================================================
\* Properties of the cache under navigation (checked under NavigationSpec)
\* ======================================================================

\* C22 (cache cleared on navigation and close): the step in which tab t
\* starts loading a page, or is closed, leaves no cache entry for t and
\* changes the entry of no other tab; and a match observed in a tab without
\* a cache entry is reported (it passes the duplicate check and is cached),
\* so the same manifest is reported again after the tab navigated.
C22_ClearStep ==
    /\ \A t \in Tabs :
          (TabLoading(t) \/ RemovedStep(t)) =>
              /\ t \notin DOMAIN lastDetectedUrls'
              /\ \A u \in Tabs \ {t} :
                    CachedFor(lastDetectedUrls', u) = CachedFor(lastDetectedUrls, u)
    /\ \A details \in HeaderDetails :
          (/\ HeadersReceived(details)
           /\ IsSignatureMatch(details)
           /\ details.tabId \notin DOMAIN lastDetectedUrls) =>
              /\ ReportedOn(details.tabId)
              /\ lastDetectedUrls'[details.tabId] = details.url
              /\ \/ notified' = [count |-> notified.count + 1,
                                  last |-> <<details.tabId, details.url>>]
                 \/ \E d \in Scans : detect[d] = Unsettled
                                        /\ detect'[d] = Resolved(details.url)
C22_CacheCleared == [][C22_ClearStep]_vars

\* With no scan started, the one manifest was observed twice in the user's
\* tab and notified both times: the tab navigated in between.
C22_Witness ==
    /\ scanPc[1] = "idle"
    /\ observedCount = 2
    /\ notified = [count |-> 2, last |-> <<UserTab, <<"https://h", "/a", ".m3u8">>>>]
    /\ lastDetectedUrls[UserTab] = <<"https://h", "/a", ".m3u8">>

\* ======================================================================
\* Properties of concurrent scans (checked under ConcurrentSpec)
\* ======================================================================

\* _waitForM3u8Detection registered the task of scan d in this step.
RegisterStep(d) == scanPc[d] = "created" /\ scanPc'[d] = "waiting"
\* An event of scan d's own tab or timer happened in this step.
OwnEvent(d) ==
    \/ RegisterStep(d)
    \/ TimerStep(d)
    \/ scannerTab[d] # Null /\ (ReportedOn(scannerTab[d]) \/ RemovedStep(scannerTab[d]))

\* C18 (task removed before the continuation): in the step that settles the
\* detect promise of a scan (by match, timeout or close) its entry leaves
\* the registry, so the entry is gone when the code awaiting
\* _waitForM3u8Detection resumes; an entry exists only for a scan that is
\* waiting, under the id of that scan's own tab; and a registration never
\* replaces an existing entry, so no tab id ever has two tasks.
C18_RegistryStep ==
    /\ \A d \in Scans :
          /\ (detect[d].kind = "none" /\ detect'[d].kind # "none") =>
                \A t \in DOMAIN m3u8DetectionPromises' : m3u8DetectionPromises'[t] # d
          /\ (scanPc[d] = "settled" /\ scanPc'[d] # "settled") =>
                \A t \in DOMAIN m3u8DetectionPromises : m3u8DetectionPromises[t] # d
          /\ RegisterStep(d) => scannerTab[d] \notin DOMAIN m3u8DetectionPromises
    /\ \A t \in DOMAIN m3u8DetectionPromises' :
          /\ scanPc'[m3u8DetectionPromises'[t]] = "waiting"
          /\ scannerTab'[m3u8DetectionPromises'[t]] = t
C18_TaskRemovedFirst == [][C18_RegistryStep]_vars

\* Scan 1 ended by a match; scan 2 has just timed out and its continuation is
\* about to resume: the registry is already empty.
C18_Witness ==
    /\ scanPc[1] = "done" /\ scanResult[1].kind = "resolved"
    /\ scanPc[2] = "settled" /\ IsTimeout(detect[2])
    /\ m3u8DetectionPromises = EmptyMap

\* C19 (concurrent detections are independent): the detect promise, timer
\* and registry entry of a scan change only by an event of its own tab or
\* timer; a step that settles one scan leaves the promise, timer, position
\* and entry of every other scan unchanged; and a scan is never held back by
\* another one: it can start, read the settings, open its window and
\* register its task whatever the other scans are doing.
C19_IndependenceStep ==
    /\ \A d \in Scans :
          /\ (\/ detect'[d] # detect[d]
              \/ timer'[d] # timer[d]
              \/ (scannerTab[d] # Null /\
                    CachedFor(m3u8DetectionPromises', scannerTab[d])
                       # CachedFor(m3u8DetectionPromises, scannerTab[d])))
                => OwnEvent(d)
          /\ (detect[d].kind = "none" /\ detect'[d].kind # "none") =>
                \A e \in Scans \ {d} :
                    /\ detect'[e] = detect[e]
                    /\ timer'[e] = timer[e]
                    /\ scanPc'[e] = scanPc[e]
                    /\ scannerTab[e] # Null =>
                          CachedFor(m3u8DetectionPromises', scannerTab[e])
                             = CachedFor(m3u8DetectionPromises, scannerTab[e])
    /\ \A d \in Scans :
          /\ (scanPc[d] = "idle" /\ \A b \in Scans : b < d => scanPc[b] # "idle")
                => ENABLED StartScan(d, Null)
          /\ scanPc[d] = "storage" => ENABLED StorageRead(d)
          /\ scanPc[d] = "creating" => ENABLED WindowCreated(d, TRUE)
          /\ (scanPc[d] = "created" /\ ~ScanMicrotaskPending) => ENABLED RegisterTask(d)
C19_ConcurrentIndependent == [][C19_IndependenceStep]_vars

\* Both tasks were registered; the tab of scan 1 was then closed, and scan 2
\* is still waiting with its entry and its timer.
C19_Witness ==
    /\ scanPc[1] = "settled" /\ detect[1] = Rejected(ClosedError)
    /\ scanPc[2] = "waiting" /\ timer[2] = "armed"
    /\ DOMAIN m3u8DetectionPromises = {scannerTab[2]}
    /\ detect[2] = Unsettled

\* ======================================================================
\* Further properties of the connection manager (checked under Spec)
\* ======================================================================

\* C14 (log mirror): a callNativeHost invocation whose result has been
\* returned has emitted its log broadcast, of type 'error' when the result
\* has success false and of type 'info' when it has success true; an
\* invocation that has not completed has emitted none.
C14_LogMirrorsResult ==
    \A c \in Calls :
        IF pc[c] = "done"
        THEN /\ result[c].kind = "fulfilled"
             /\ callLog[c] \in {"info", "error"}
             /\ result[c].val.success = FALSE => callLog[c] = "error"
             /\ result[c].val.success = TRUE => callLog[c] = "info"
        ELSE result[c] = NoResult /\ callLog[c] = "none"

\* One call answered with success true and logged as info, the other failed
\* by a disconnect and logged as error.
C14_Witness ==
    /\ pc[1] = "done" /\ pc[2] = "done"
    /\ result[1].val.success = TRUE /\ callLog[1] = "info"
    /\ result[2].val.success = FALSE /\ callLog[2] = "error"
    /\ "error" \in DOMAIN result[2].val
    /\ result[2].val.error[2] = "Native host disconnected: "

\* C15 (no send while DISCONNECTED): a message is posted only in a step in
\* which connectionStatus is CONNECTED, on the current channel handle; and a
\* caller that waits for the connection it obtained finds the status still
\* CONNECTED and the handle set when it resumes to send, because no
\* disconnect event is processed in between.
C15_SendStep ==
    /\ Len(posted') > Len(posted) =>
          /\ connectionStatus = "CONNECTED" /\ connectionStatus' = "CONNECTED"
          /\ nativePort # Null
          /\ posted'[Len(posted')].port = nativePort
          /\ ports[nativePort] = "open"
    /\ \A c \in Calls :
          (pc[c] = "awaitConn" /\ awaited[c] = "resolved") =>
              connectionStatus = "CONNECTED" /\ nativePort # Null
C15_NoSendWhileDisconnected == [][C15_SendStep]_vars

\* After the first channel was disconnected, the second call has opened a
\* new one and is waiting to send on it.
C15_Witness ==
    /\ Len(ports) = 2 /\ ports[1] = "closed"
    /\ pc[2] = "awaitConn" /\ awaited[2] = "resolved"
    /\ Len(posted) = 1 /\ posted[1].port = 1

\* C16 (unique request ids): requestIdCounter never decreases; a call that
\* reaches the send step takes the id req_<requestIdCounter>, which no other
\* call has taken and no pending entry uses, and advances the counter, also
\* when its send fails and after a reconnect; every pending entry is stored
\* under the id of the call it belongs to.
C16_IdStep ==
    /\ requestIdCounter' >= requestIdCounter
    /\ \A c \in Calls :
          /\ sentId[c] # NoId => sentId'[c] = sentId[c]
          /\ (sentId[c] = NoId /\ sentId'[c] # NoId) =>
                /\ sentId'[c] = ReqId(requestIdCounter)
                /\ requestIdCounter' = requestIdCounter + 1
                /\ sentId'[c] \notin DOMAIN requestPromises
                /\ \A b \in Calls \ {c} : sentId[b] # sentId'[c]
    /\ \A id \in DOMAIN requestPromises' : sentId'[requestPromises'[id]] = id
    /\ \A b, c \in Calls : (b # c /\ sentId'[b] # NoId) => sentId'[b] # sentId'[c]
C16_UniqueRequestIds == [][C16_IdStep]_vars

\* The first call took req_0 and its send failed; after the disconnect and a
\* reconnect the second call took req_1 and is pending on the new channel.
C16_Witness ==
    /\ sentId[1] = ReqId(0) /\ outer[1] = Rejected(SendError)
    /\ sentId[2] = ReqId(1) /\ pc[2] = "pending"
    /\ requestIdCounter = 2
    /\ Len(posted) = 1 /\ posted[1].port = 2 /\ posted[1].request_id = ReqId(1)

\* C17 (send failure is local): in the step in which posting the message of
\* a call throws, that call alone is rejected with the send error and has no
\* pending entry; connectionStatus, the channel handle, the connection
\* promise, the ports and every other pending request are unchanged.  The
\* status leaves CONNECTED and the handle becomes null only in a step in
\* which the onDisconnect listener runs.
C17_SendFailureStep ==
    /\ \A c \in Calls :
          (outer[c].kind = "none" /\ outer'[c] = Rejected(SendError)) =>
              /\ sentId'[c] # NoId
              /\ sentId'[c] \notin DOMAIN requestPromises'
              /\ requestPromises' = requestPromises
              /\ \A b \in Calls \ {c} : outer'[b] = outer[b] /\ pc'[b] = pc[b]
              /\ posted' = posted
              /\ UNCHANGED <<connectionStatus, nativePort, connectionPromise, ports>>
    /\ (connectionStatus = "CONNECTED" /\ connectionStatus' # "CONNECTED") => DisconnectStep
    /\ (nativePort # Null /\ nativePort' = Null) => DisconnectStep
C17_SendFailureLocal == [][C17_SendFailureStep]_vars

\* The first call is pending on the channel; the channel broke and the send
\* of the second call threw, and the connection state is untouched.
C17_Witness ==
    /\ pc[1] = "pending" /\ sentId[1] = ReqId(0)
    /\ outer[2] = Rejected(SendError) /\ sentId[2] = ReqId(1)
    /\ connectionStatus = "CONNECTED" /\ nativePort = 1 /\ ports[1] = "broken"
    /\ DOMAIN requestPromises = {ReqId(0)}

\* The message given to the listener in this step matches no pending request.
UnmatchedExit(m) ==
    /\ m.action = "mpv_exited"
    /\ (m.request_id = NoId \/ m.request_id \notin DOMAIN requestPromises)

\* C20 (mpv_exited delivery): the step in which the listener receives an
\* mpv_exited message matching no pending request invokes handleMpvExited
\* once, with that message's payload, and settles or removes no pending
\* request; handleMpvExited is invoked in no other step.  (Fails for a
\* message whose request_id names an inherited property: the listener throws
\* before it looks at the action.)
C20_ExitedStep ==
    /\ (DeliverStep /\ UnmatchedExit(lastInbound')) =>
          /\ mpvExitedCalls' = Append(mpvExitedCalls, ResponseData(lastInbound'))
          /\ outer' = outer
          /\ requestPromises' = requestPromises
    /\ mpvExitedCalls' # mpvExitedCalls => (DeliverStep /\ UnmatchedExit(lastInbound'))
C20_ExitedDelivery == [][C20_ExitedStep]_vars

\* With a request pending, two unsolicited mpv_exited messages arrived, the
\* second carrying an id that is not pending: two invocations, the request
\* still pending.
C20_Witness ==
    /\ pc[1] = "pending" /\ DOMAIN requestPromises = {ReqId(0)}
    /\ inboundCount = 2 /\ Len(mpvExitedCalls) = 2
    /\ lastInbound.action = "mpv_exited" /\ lastInbound.request_id = ReqId(1)
    /\ mpvExitedCalls[2] = ResponseData(lastInbound)

\* An inbound message that belongs to no pending request and is no exit event.
UnmatchedOther(m) ==
    /\ m.action # "mpv_exited"
    /\ (m.request_id = NoId \/ m.request_id \notin DOMAIN requestPromises)

\* C21 (unmatched message dropped): the step in which the listener receives
\* a message that matches no pending request and is not an mpv_exited event
\* leaves connectionStatus, the channel handle, the pending-request map and
\* every pending promise unchanged, invokes no handler, and the listener
\* does not throw.  (Fails for a request_id naming an inherited property of
\* the plain-object map: line 245 throws.)
C21_DropStep ==
    (DeliverStep /\ UnmatchedOther(lastInbound')) =>
        /\ connectionStatus' = connectionStatus
        /\ nativePort' = nativePort
        /\ requestPromises' = requestPromises
        /\ outer' = outer
        /\ mpvExitedCalls' = mpvExitedCalls
        /\ onMessageThrew' = onMessageThrew
C21_UnmatchedDropped == [][C21_DropStep]_vars

\* With a request pending, a message without request_id and then one with an
\* id that is not pending were received and dropped: the request is still
\* pending on the connected channel and the listener has not thrown.
C21_Witness ==
    /\ pc[1] = "pending" /\ DOMAIN requestPromises = {ReqId(0)}
    /\ outer[1] = Unsettled
    /\ connectionStatus = "CONNECTED" /\ nativePort = 1
    /\ inboundCount = 2 /\ mpvExitedCalls = <<>>
    /\ lastInbound.action = "none" /\ lastInbound.request_id = ReqId(1)
    /\ ~onMessageThrew

\* ======================================================================
\* Properties of the exit-event handler (checked under ExitSpec)
\* ======================================================================

\* C13 (exit-code policy): a handleMpvExited invocation that has finished
\* called handleClear exactly once when its event carried returnCode 99 (and
\* a folderId) and clear_on_completion is true, and never otherwise; the
\* stored playlists change only when the storage.set of such an invocation
\* completes, and then the playlist of the event's folderId is empty.
C13_PolicyStep ==
    /\ \A i \in DOMAIN exitPc' :
          /\ handleClearCalls'[i] <= 1
          /\ exitPc'[i] \in {"done", "threw"} =>
                handleClearCalls'[i] =
                    (IF /\ clear_on_completion
                        /\ "folderId" \in DOMAIN mpvExitedCalls'[i]
                        /\ mpvExitedCalls'[i].returnCode = 99
                     THEN 1 ELSE 0)
    /\ storedFolders' # storedFolders =>
          \E i \in DOMAIN exitPc :
              /\ exitPc[i] = "clearSet" /\ exitPc'[i] = "done"
              /\ clear_on_completion
              /\ mpvExitedCalls[i].returnCode = 99
              /\ storedFolders'[mpvExitedCalls[i].folderId] = <<>>
              /\ \A f \in FolderIds \ {mpvExitedCalls[i].folderId} :
                    storedFolders'[f] = storedFolders[f]
C13_ExitCodePolicy == [][C13_PolicyStep]_vars

\* With the flag set, an exit with code 0 was handled without clearing and
\* a later exit with code 99 has cleared the playlist of its folder.
C13_Witness ==
    /\ clear_on_completion
    /\ Len(mpvExitedCalls) = 2
    /\ mpvExitedCalls[1] = [action |-> "mpv_exited", folderId |-> "YT", returnCode |-> 0]
    /\ mpvExitedCalls[2] = [action |-> "mpv_exited", folderId |-> "YT", returnCode |-> 99]
    /\ exitPc = <<"done", "done">>
    /\ handleClearCalls = <<0, 1>>
    /\ storedFolders["YT"] = <<>>

\* ======================================================================
\* Properties of the match condition (checked under ObserverSpec)
\* ======================================================================

\* The content-type value contains one of the four manifest MIME strings.
HasManifestMime(headers) ==
    \E i \in DOMAIN headers :
        \/ headers[i] = "application/vnd.apple.mpegurl"
        \/ headers[i] = "application/x-mpegURL"
        \/ headers[i] = "audio/mpegurl"
        \/ headers[i] = "audio/x-mpegurl"
\* The URL has a path and its last token before any "?" is ".m3u8".
PathEndsWithExtension(url) ==
    /\ UrlParses(url)
    /\ \E k \in 2..Len(url) :
          /\ url[k] = ".m3u8"
          /\ \A j \in 1..k : url[j] # "?"
          /\ (k = Len(url) \/ url[k + 1] = "?")

\* C23 as stated (match condition is a plain OR): the last response given to
\* the listener was taken for a manifest if and only if its content-type
\* contains a manifest MIME string or the path of its URL ends with .m3u8,
\* whatever headers the response has.
C23_MatchIsOr ==
    response # NoResponse =>
        (matched <=> (HasManifestMime(response.responseHeaders)
                        \/ PathEndsWithExtension(response.url)))

\* C23 (match condition, amended): a response that carries responseHeaders
\* is taken for a manifest if and only if its content-type contains a
\* manifest MIME string or the path of its URL (query string ignored) ends
\* with .m3u8; a response without responseHeaders is never a match.
C23_MatchCondition ==
    response # NoResponse =>
        (matched <=> /\ response.responseHeaders # NoHeaders
                     /\ (HasManifestMime(response.responseHeaders)
                           \/ PathEndsWithExtension(response.url)))

\* The listener took a text/html response for a manifest because the path
\* of its URL ends with .m3u8, and cached it.
C23_Witness ==
    /\ response = [tabId |-> UserTab, url |-> <<"https://h", "/a", ".m3u8">>,
                   responseHeaders |-> <<"text/html">>]
    /\ matched
    /\ lastDetectedUrls[UserTab] = <<"https://h", "/a", ".m3u8">>
    /\ notified.count = 1

\* C24 (malformed URL): when the listener is called with a response whose
\* URL fails to parse, whatever its content-type, it does not throw, it does
\* not take the response for a manifest, the cache is unchanged, no task is
\* resolved and no notification is sent.  (Fails for a manifest content-type:
\* the catch block only leaves isM3U8Url false.)
C24_MalformedStep ==
    \A details \in AllDetails :
        (Observe(details) /\ ~UrlParses(details.url)) =>
            /\ ~matched'
            /\ ~listenerThrew'
            /\ lastDetectedUrls' = lastDetectedUrls
            /\ m3u8DetectionPromises' = m3u8DetectionPromises
            /\ detect' = detect
            /\ notified' = notified
C24_MalformedIgnored == [][C24_MalformedStep]_vars

\* A text/html response with an unparsable URL ending in .m3u8 was given to
\* the listener while a task was registered: nothing was cached, resolved or
\* notified.
C24_Witness ==
    /\ response.url = <<"no scheme", ".m3u8">>
    /\ response.responseHeaders = <<"text/html">>
    /\ response.tabId = scannerTab[1]
    /\ ~matched /\ ~listenerThrew
    /\ scanPc[1] = "waiting" /\ detect[1] = Unsettled
    /\ lastDetectedUrls = EmptyMap /\ notified.count = 0

\* ======================================================================
\* Termination of callNativeHost (checked under LiveSpec)
\* ======================================================================

\* C25 (every call completes): under LiveSpec (continuations run, the
\* channel answers every posted request with its response or a disconnect)
\* every callNativeHost invocation that was started eventually completes;
\* and a request that was sent is settled only in a step in which the
\* listener receives the response carrying its id or the port disconnects.
C25_SettledStep ==
    \A c \in Calls :
        (pc[c] = "pending" /\ pc'[c] # "pending") =>
            /\ pc'[c] = "settled"
            /\ \/ DeliverStep /\ lastInbound'.request_id = sentId[c]
                  /\ outer'[c] = Resolved(ResponseData(lastInbound'))
               \/ DisconnectStep /\ outer'[c].kind = "rejected"
C25_EveryCallCompletes ==
    /\ \A c \in Calls : (pc[c] # "idle") ~> (pc[c] = "done")
    /\ [][C25_SettledStep]_vars

\* Both calls were sent; one was completed by its response and the other by
\* the disconnect of the channel.
C25_Witness ==
    /\ pc[1] = "done" /\ pc[2] = "done"
    /\ sentId[1] = ReqId(0) /\ sentId[2] = ReqId(1)
    /\ result[1] = [kind |-> "fulfilled",
                    val |-> [action |-> "none", success |-> TRUE, text |-> "a"]]
    /\ result[2].val.success = FALSE
    /\ result[2].val.error[2] = "Native host disconnected: "
    /\ Len(posted) = 2

\* ======================================================================
\* Recovery of the connection manager (checked under Spec)
\* ======================================================================

\* C26 (failed connection attempt is recoverable): whenever no handler is
\* executing connectionStatus is DISCONNECTED or CONNECTED, never CONNECTING,
\* so that a call made after a failed open attempt opens the channel anew.
\* (Fails: when connectNative throws inside the executor nothing resets the
\* status set at line 218.)
C26_Recoverable == connectionStatus \in {"DISCONNECTED", "CONNECTED"}

\* The open attempt of the first call failed and the call completed with
\* the error envelope.
C26_Witness ==
    /\ ports = <<"failed">>
    /\ pc[1] = "done"
    /\ result[1].kind = "fulfilled" /\ result[1].val.success = FALSE
    /\ connectionPromise = "rejected"

\* ======================================================================
\* Properties of the storage handlers (checked under PlaylistSpec and
\* FolderSpec)
\* ======================================================================
\* What one request does to the stored data when its handler runs alone.
Effect(request, data) ==
    IF Validate(request) # "ok" THEN data ELSE Handle(request, data).data

\* The stored data after the requests of S have been handled one after the
\* other, in every order.
RECURSIVE SerialOutcomes(_, _)
SerialOutcomes(S, data) ==
    IF S = {} THEN {data}
    ELSE UNION {SerialOutcomes(S \ {i}, Effect(requests[i], data)) : i \in S}

DefaultData == [folders |-> [f \in {"YT"} |-> <<>>], folderOrder |-> <<"YT">>]
AllHandled ==
    /\ Len(requests) = MaxRequests
    /\ \A i \in DOMAIN handlerPc : handlerPc[i] = "done"

\* C28 (no lost update): once the handlers of the concurrent requests have
\* all returned, the stored data is what handling the requests one after the
\* other, in some order, leaves; two adds leave both URLs in the playlist.
C28_NoLostMutation ==
    AllHandled =>
        /\ StoredData \in SerialOutcomes(DOMAIN requests, DefaultData)
        /\ (\A i \in DOMAIN requests : requests[i].action \in {"add", "addUrlToFolder"}
                                       /\ handlerResponse[i] = Success)
           => Len(storedFolders["YT"]) = Len(requests)

\* Two adds have interleaved at their storage awaits and have both returned
\* success.
C28_Witness ==
    /\ AllHandled
    /\ \A i \in DOMAIN requests : requests[i].action \in {"add", "addUrlToFolder"}
                                  /\ handlerResponse[i] = Success
    /\ \A i \in DOMAIN requests : handlerData[i].folders["YT"] = <<requests[i].detectedUrl>>
    /\ requests[1].detectedUrl # requests[2].detectedUrl

Elements(order) == {order[i] : i \in DOMAIN order}

\* C29 (folder order): whatever folder requests have been handled,
\* folderOrder lists every key of folders exactly once, and there is at
\* least one folder.
C29_OrderListsFolders ==
    /\ Elements(folderOrder) = DOMAIN storedFolders
    /\ Len(folderOrder) = Cardinality(DOMAIN storedFolders)
    /\ DOMAIN storedFolders # {}

\* A set_folder_order request naming one folder twice has been answered with
\* success, and a remove_folder request after it as well.
C29_Witness ==
    /\ Len(requests) = 2
    /\ requests[1].action = "set_folder_order"
    /\ requests[1].order = <<"YT", "YT">>
    /\ handlerResponse[1] = Success
    /\ requests[2].action = "remove_folder"
    /\ handlerData[2].folderOrder = <<>>
    /\ handlerResponse[2] = Success

\* ======================================================================
\* Properties of the debounced sync (checked under DebounceSpec)
\* ======================================================================
Increasing(runs) == \A i, j \in DOMAIN runs : i < j => runs[i] < runs[j]

\* While invocations follow each other by less than `wait`, one timer is
\* pending, due `wait` after the last of them, and it has not been missed;
\* once it is no longer pending the sync has run, at that instant.
C30_Pending ==
    /\ Cardinality(timers) <= 1
    /\ \A x \in timers : x.due = lastInvoked + wait /\ now <= x.due
    /\ (timers = {} /\ invocations > 0) =>
           /\ syncRuns # <<>>
           /\ syncRuns[Len(syncRuns)] = lastInvoked + wait
    /\ Increasing(syncRuns)

\* A step that runs syncDataToNativeHostFile runs it once, `wait` after the
\* last invocation, and leaves no timer pending.
C30_RunStep ==
    (syncRuns' # syncRuns) =>
        /\ invocations > 0
        /\ now = lastInvoked + wait
        /\ syncRuns' = Append(syncRuns, now)
        /\ timers' = {}

\* C30 (debounced sync): k >= 1 invocations of debouncedSyncToNativeHostFile
\* less than 1000 ms apart make syncDataToNativeHostFile run exactly once,
\* 1000 ms after the last of them and never before.
C30_RunsOnceAfterLast == []C30_Pending /\ [][C30_RunStep]_vars

\* Two invocations 500 ms apart, then the one run 1000 ms after the second.
C30_Witness ==
    /\ invocations = 2
    /\ lastInvoked = 500
    /\ syncRuns = <<1500>>
    /\ timers = {}

====
